---------------------------- MODULE Spec2Model ----------------------------
(***************************************************************************)
(* A model of the go-cache TTL caches:                                     *)
(*   - the expiry-ordered TTL cache of ttl.go (TTLCache over an LRUMap),   *)
(*   - the unordered-map TTL cache (TTLCache[K, V] over a Go map),         *)
(*   - the lookup cache built on the expiry-ordered cache (lookup.Cache),  *)
(*   - the result cache built on the expiry-ordered cache (result.Cache).  *)
(*   - the struct cache built on the unordered-map cache                   *)
(*     (fancycache.Cache) and its key encoder.                             *)
(* Time is counted in whole clock units; a time.Duration is a number of    *)
(* such units.                                                             *)
(* Specifications:                                                         *)
(*   SpecOrd     the expiry-ordered cache, one call at a time              *)
(*   SpecMap     the unordered-map cache, one call at a time               *)
(*   SpecStop    Start, Stop and the scheduled Sweep as threads            *)
(*   SpecLk      the lookup cache, one call at a time                      *)
(*   SpecLkConc  the lookup cache used by two threads                      *)
(*   SpecCaches  the expiry-ordered cache or the unordered-map cache       *)
(*   SpecRes     the result cache, one call at a time                      *)
(*   SpecWrap    the result cache through the wrap-around of its counter   *)
(*   SpecCapped  the expiry-ordered cache or the result cache built on it  *)
(*   SpecKey     genkey applied to two lists of key parts                  *)
(*   SpecFancy   the struct cache, one call at a time                      *)
(*   SpecResConc the result cache used by two threads                      *)
(*   SpecLoadRace two threads that Load from the result cache              *)
(*   SpecCopy    the result cache and the objects its values point to      *)
(***************************************************************************)
EXTENDS Integers, Sequences, FiniteSets, TLC

(***************************************************************************)
(* Bounds of the model.                                                    *)
(***************************************************************************)
\* The clock stops advancing at MaxTime.
MaxTime == 3
\* TTLs are drawn from 1..MaxTTL.
MaxTTL == 2
\* The expiry-ordered cache is initialised with a capacity in 1..MaxCap.
MaxCap == 2

Keys == {"k1", "k2"}
Values == {"v1", "v2"}
\* The zero value of the value type (var value V).
Zero == "zero"
TTLs == 1..MaxTTL
\* No key: the key field of an operation that takes none.
NoKey == "-"

(***************************************************************************)
(* Sequence helpers.                                                       *)
(***************************************************************************)
Range(s) == {s[i] : i \in 1..Len(s)}

RemoveAt(s, i) == SubSeq(s, 1, i - 1) \o SubSeq(s, i + 1, Len(s))

Reverse(s) == [i \in 1..Len(s) |-> s[Len(s) + 1 - i]]

(***************************************************************************)
(* The expiry-ordered map collaborator (maps.LRUMap).  A map is a sequence *)
(* of entries; position 1 is the front (Go index 0, the most recently      *)
(* placed element) and position Len is the tail (the oldest).              *)
(***************************************************************************)
LRUHas(c, key) == \E i \in 1..Len(c) : c[i].Key = key

LRUIndex(c, key) == CHOOSE i \in 1..Len(c) : c[i].Key = key

\* Get pushes the element found to the front of the map.
LRUGet(c, key) == <<c[LRUIndex(c, key)]>> \o RemoveAt(c, LRUIndex(c, key))

\* A Set that drops no element at capacity.
LRUSetGrow(c, item, cap) == [cache |-> <<item>> \o c, dropped |-> <<>>]

\* Set of a key not yet in the map: at capacity the tail element is
\* dropped and handed to the registered hook; the new element is pushed to
\* the front.
LRUSet(c, item, cap) ==
    IF Len(c) >= cap
    THEN [cache |-> <<item>> \o SubSeq(c, 1, Len(c) - 1), dropped |-> <<c[Len(c)]>>]
    ELSE [cache |-> <<item>> \o c, dropped |-> <<>>]

LRUDelete(c, key) == RemoveAt(c, LRUIndex(c, key))

\* Truncate(n, fn): drops the n elements at the tail, the oldest first.
LRUTruncate(c, n) ==
    [cache |-> SubSeq(c, 1, Len(c) - n),
     dropped |-> Reverse(SubSeq(c, Len(c) - n + 1, Len(c)))]

(***************************************************************************)
(* The expiry-ordered TTL cache (ttl.go).  Each operation is an operator   *)
(* from the cache before the call to [cache, ret, hooks] after it: the     *)
(* LRUMap, the value returned and the hook calls made, in order.  A hook   *)
(* call records the hook, the entry handed to it, and whether the entry's  *)
(* key was still in the map when the hook ran.                             *)
(***************************************************************************)
HookCall(hook, item, inCache) ==
    [hook |-> hook, Key |-> item.Key, Value |-> item.Value, inCache |-> inCache]

Entry(key, value, expiry) == [Key |-> key, Value |-> value, Expiry |-> expiry]

\* now.After(item.Expiry)
After(now, expiry) == now > expiry

\* The RangeIf walk of Sweep: the Go index of the first entry, walking from
\* the front, that has expired at now (where the walk stops); -1, the
\* sentinel, when the walk reaches the end.
SweepAfter(c, now) ==
    IF \E i \in 1..Len(c) : After(now, c[i].Expiry)
    THEN (CHOOSE i \in 1..Len(c) :
              /\ After(now, c[i].Expiry)
              /\ \A j \in 1..(i - 1) : ~After(now, c[j].Expiry)) - 1
    ELSE -1

\* The number of elements Sweep hands to Truncate: cap(evicts).
SweepCount(c, after) == Len(c) - after - 1

Sweep(c, now) ==
    LET after == SweepAfter(c, now)
    IN  IF after = -1
        THEN [cache |-> c, ret |-> "none", hooks |-> <<>>]
        ELSE LET t == LRUTruncate(c, SweepCount(c, after))
             IN  [cache |-> t.cache, ret |-> "none",
                  hooks |-> [i \in 1..Len(t.dropped) |->
                                HookCall("evict", t.dropped[i], FALSE)]]

\* The hook calls of a capacity-driven drop inside LRUMap.Set: the hook
\* registered by SetEvictionCallback hands the dropped item to Evict.
DropHooks(dropped) ==
    [i \in 1..Len(dropped) |-> HookCall("evict", dropped[i], FALSE)]

\* A Get that returns the value and leaves the entry's expiry as it is.
GetNoRefresh(c, key, now, ttl) ==
    IF ~LRUHas(c, key)
    THEN [cache |-> c, ret |-> [value |-> Zero, ok |-> FALSE], hooks |-> <<>>]
    ELSE [cache |-> LRUGet(c, key),
          ret |-> [value |-> LRUGet(c, key)[1].Value, ok |-> TRUE], hooks |-> <<>>]

Get(c, key, now, ttl) ==
    IF ~LRUHas(c, key)
    THEN [cache |-> c, ret |-> [value |-> Zero, ok |-> FALSE], hooks |-> <<>>]
    ELSE LET g == LRUGet(c, key)
         IN  [cache |-> [g EXCEPT ![1].Expiry = now + ttl],
              ret |-> [value |-> g[1].Value, ok |-> TRUE], hooks |-> <<>>]

\* An Add that, on a key already cached, stores the new value.
AddOverwrite(c, key, value, now, ttl, cap) ==
    IF LRUHas(c, key)
    THEN [cache |-> [i \in 1..Len(c) |->
                        IF c[i].Key = key THEN Entry(key, value, c[i].Expiry) ELSE c[i]],
          ret |-> FALSE, hooks |-> <<>>]
    ELSE [cache |-> LRUSet(c, Entry(key, value, now + ttl), cap).cache, ret |-> TRUE,
          hooks |-> DropHooks(LRUSet(c, Entry(key, value, now + ttl), cap).dropped)]

Add(c, key, value, now, ttl, cap) ==
    IF LRUHas(c, key)
    THEN [cache |-> c, ret |-> FALSE, hooks |-> <<>>]
    ELSE LET s == LRUSet(c, Entry(key, value, now + ttl), cap)
         IN  [cache |-> s.cache, ret |-> TRUE, hooks |-> DropHooks(s.dropped)]

\* A Set that hands the new value to the invalidate hook.
SetHookNew(c, key, value, now, ttl, cap) ==
    IF LRUHas(c, key)
    THEN [cache |-> [LRUGet(c, key) EXCEPT ![1] = Entry(key, value, now + ttl)],
          ret |-> "none",
          hooks |-> <<HookCall("invalid", Entry(key, value, now + ttl), TRUE)>>]
    ELSE [cache |-> [LRUSet(c, Entry(key, Zero, 0), cap).cache
                        EXCEPT ![1] = Entry(key, value, now + ttl)],
          ret |-> "none", hooks |-> DropHooks(LRUSet(c, Entry(key, Zero, 0), cap).dropped)]

Set(c, key, value, now, ttl, cap) ==
    IF LRUHas(c, key)
    THEN LET g == LRUGet(c, key)
         IN  [cache |-> [g EXCEPT ![1] = Entry(key, value, now + ttl)],
              ret |-> "none",
              hooks |-> <<HookCall("invalid", g[1], TRUE)>>]
    ELSE LET s == LRUSet(c, Entry(key, Zero, 0), cap)
         IN  [cache |-> [s.cache EXCEPT ![1] = Entry(key, value, now + ttl)],
              ret |-> "none", hooks |-> DropHooks(s.dropped)]

\* cmp is the caller's comparison; the model's callers pass equality.
CAS(c, key, old, new, now, ttl) ==
    IF ~LRUHas(c, key)
    THEN [cache |-> c, ret |-> FALSE, hooks |-> <<>>]
    ELSE LET g == LRUGet(c, key)
         IN  IF g[1].Value # old
             THEN [cache |-> g, ret |-> FALSE, hooks |-> <<>>]
             ELSE [cache |-> [g EXCEPT ![1] = Entry(key, new, now + ttl)],
                   ret |-> TRUE,
                   hooks |-> <<HookCall("invalid", g[1], TRUE)>>]

Swap(c, key, swp, now, ttl) ==
    IF ~LRUHas(c, key)
    THEN [cache |-> c, ret |-> Zero, hooks |-> <<>>]
    ELSE LET g == LRUGet(c, key)
         IN  [cache |-> [g EXCEPT ![1] = Entry(key, swp, now + ttl)],
              ret |-> g[1].Value,
              hooks |-> <<HookCall("invalid", g[1], TRUE)>>]

Has(c, key) == [cache |-> c, ret |-> LRUHas(c, key), hooks |-> <<>>]

\* An Invalidate that calls the hook and leaves the entry in the map.
InvalidateKeep(c, key) ==
    IF ~LRUHas(c, key)
    THEN [cache |-> c, ret |-> FALSE, hooks |-> <<>>]
    ELSE [cache |-> LRUGet(c, key), ret |-> TRUE,
          hooks |-> <<HookCall("invalid", LRUGet(c, key)[1], TRUE)>>]

Invalidate(c, key) ==
    IF ~LRUHas(c, key)
    THEN [cache |-> c, ret |-> FALSE, hooks |-> <<>>]
    ELSE LET g == LRUGet(c, key)
         IN  [cache |-> LRUDelete(g, key), ret |-> TRUE,
              hooks |-> <<HookCall("invalid", g[1], TRUE)>>]

\* A Clear that leaves the newest entry in the map.
ClearButNewest(c) ==
    LET t == LRUTruncate(c, IF Len(c) > 1 THEN Len(c) - 1 ELSE Len(c))
    IN  [cache |-> t.cache, ret |-> "none",
         hooks |-> [i \in 1..Len(t.dropped) |->
                       HookCall("invalid", t.dropped[i], FALSE)]]

Clear(c) ==
    LET t == LRUTruncate(c, Len(c))
    IN  [cache |-> t.cache, ret |-> "none",
         hooks |-> [i \in 1..Len(t.dropped) |->
                       HookCall("invalid", t.dropped[i], FALSE)]]

\* SetTTL's effect on the map; the new TTL itself is assigned by the caller.
SetTTL(c, oldTTL, ttl, update) ==
    LET diff == ttl - oldTTL
    IN  [cache |-> IF update
                   THEN [i \in 1..Len(c) |-> [c[i] EXCEPT !.Expiry = @ + diff]]
                   ELSE c,
         ret |-> "none", hooks |-> <<>>]

(***************************************************************************)
(* State.                                                                  *)
(*   oCache, oTTL  the LRUMap and the TTL of the expiry-ordered cache      *)
(*   oCap          the capacity the LRUMap was initialised with            *)
(*   oNow          the clock (time.Now())                                  *)
(*   oStop         whether the cancel func c.stop is set                   *)
(*   oLast         the last call made on the cache and what it returned    *)
(*   oHooks        the hook calls that call made, in order                 *)
(*   mCache, mTTL  the Go map and the TTL of the unordered-map cache       *)
(*   mNow          the cache clock (cacheClock.Now())                      *)
(*   mMu           whether the cache mutex mu is held                      *)
(*   mLast, mHooks as oLast and oHooks, for the unordered-map cache        *)
(*   sMu           who holds the expiry-ordered cache's mutex              *)
(*   sJob          the number of Sweep jobs the scheduler still runs       *)
(*   pcStop        where the thread calling Stop() is                      *)
(*   pcTick        where the scheduler's tick, a call of Sweep, is         *)
(*   lookup        the lookup cache's Map: (lookup id, key) -> primary key *)
(*   lkHooks       the calls of the lookup cache's user hooks made by the  *)
(*                 last call, in order                                     *)
(*   lkPc          what each thread using the lookup cache is doing        *)
(*   next          the result cache's primary key counter                  *)
(***************************************************************************)
VARIABLES oCache, oTTL, oCap, oNow, oStop, oLast, oHooks,
          mCache, mTTL, mNow, mMu, mLast, mHooks,
          sMu, sJob, pcStop, pcTick,
          lookup, lkHooks, lkPc,
          next

ordVars == <<oCache, oTTL, oCap, oNow, oStop, oLast, oHooks>>

mapVars == <<mCache, mTTL, mNow, mMu, mLast, mHooks>>

thrVars == <<sMu, sJob, pcStop, pcTick>>

lkVars == <<lookup, lkHooks, lkPc>>

resVars == <<next>>

vars == <<ordVars, mapVars, thrVars, lkVars, resVars>>

\* What the calls on the expiry-ordered cache leave alone.
notOrd == <<mapVars, thrVars, lkVars, resVars>>

\* What the calls on the unordered-map cache leave alone.
notMap == <<ordVars, thrVars, lkVars, resVars>>

\* What the threads around Start, Stop and Sweep leave alone.
notThr == <<mapVars, lkVars, resVars>>

\* What the calls on the lookup cache leave alone.
notLk == <<mapVars, thrVars, resVars>>

Call(op, key, arg, ret) == [op |-> op, key |-> key, arg |-> arg, ret |-> ret]

\* The variables of a cache that a specification does not use.
OrdIdle ==
    /\ oCache = <<>>
    /\ oTTL = 1
    /\ oCap = 1
    /\ oNow = 0
    /\ oStop = FALSE
    /\ oLast = Call("Idle", NoKey, Zero, "none")
    /\ oHooks = <<>>

MapIdle ==
    /\ mCache = <<>>
    /\ mTTL = 1
    /\ mNow = 0
    /\ mMu = FALSE
    /\ mLast = [op |-> "Idle", key |-> NoKey, arg |-> Zero, ret |-> "none", panicked |-> FALSE]
    /\ mHooks = <<>>

ThrIdle ==
    /\ sMu = "free"
    /\ sJob = 0
    /\ pcStop = "idle"
    /\ pcTick = [at |-> "idle", now |-> 0]

LkIdle ==
    /\ lookup = {}
    /\ lkHooks = <<>>
    /\ lkPc = <<>>

ResIdle == next = 0

(***************************************************************************)
(* The expiry-ordered cache used on its own, one call at a time.           *)
(***************************************************************************)
OrdInit ==
    /\ oCache = <<>>
    /\ oTTL \in TTLs
    /\ oCap \in 1..MaxCap
    /\ oNow = 0
    /\ oStop = FALSE
    /\ oLast = Call("Init", NoKey, Zero, "none")
    /\ oHooks = <<>>
    /\ MapIdle
    /\ ThrIdle
    /\ LkIdle
    /\ ResIdle

\* A call that went through the cache's operator r.
OrdDone(op, key, arg, r) ==
    /\ oCache' = r.cache
    /\ oHooks' = r.hooks
    /\ oLast' = Call(op, key, arg, r.ret)
    /\ UNCHANGED <<oTTL, oCap, oNow, oStop, notOrd>>

OrdTick ==
    /\ oNow < MaxTime
    /\ oNow' = oNow + 1
    /\ oLast' = Call("Tick", NoKey, Zero, "none")
    /\ oHooks' = <<>>
    /\ UNCHANGED <<oCache, oTTL, oCap, oStop, notOrd>>

OrdSweep == OrdDone("Sweep", NoKey, Zero, Sweep(oCache, oNow))

OrdGet(key) == OrdDone("Get", key, Zero, Get(oCache, key, oNow, oTTL))

OrdAdd(key, value) ==
    OrdDone("Add", key, value, Add(oCache, key, value, oNow, oTTL, oCap))

OrdSet(key, value) ==
    OrdDone("Set", key, value, Set(oCache, key, value, oNow, oTTL, oCap))

OrdCAS(key, old, new) ==
    OrdDone("CAS", key, <<old, new>>, CAS(oCache, key, old, new, oNow, oTTL))

OrdSwap(key, swp) ==
    OrdDone("Swap", key, swp, Swap(oCache, key, swp, oNow, oTTL))

OrdHas(key) == OrdDone("Has", key, Zero, Has(oCache, key))

OrdInvalidate(key) == OrdDone("Invalidate", key, Zero, Invalidate(oCache, key))

OrdClear == OrdDone("Clear", NoKey, Zero, Clear(oCache))

\* Expiry times stay within the clock's range plus one TTL.
ExpiryInRange(c) == \A i \in 1..Len(c) : c[i].Expiry \in 0..(MaxTime + MaxTTL)

OrdSetTTL(ttl, update) ==
    /\ ExpiryInRange(SetTTL(oCache, oTTL, ttl, update).cache)
    /\ oCache' = SetTTL(oCache, oTTL, ttl, update).cache
    /\ oTTL' = ttl
    /\ oHooks' = <<>>
    /\ oLast' = Call("SetTTL", NoKey, <<ttl, update>>, "none")
    /\ UNCHANGED <<oCap, oNow, oStop, notOrd>>

OrdNext ==
    \/ OrdTick
    \/ OrdSweep
    \/ \E key \in Keys : OrdGet(key)
    \/ \E key \in Keys, value \in Values : OrdAdd(key, value)
    \/ \E key \in Keys, value \in Values : OrdSet(key, value)
    \/ \E key \in Keys, old \in Values, new \in Values : OrdCAS(key, old, new)
    \/ \E key \in Keys, swp \in Values : OrdSwap(key, swp)
    \/ \E key \in Keys : OrdHas(key)
    \/ \E key \in Keys : OrdInvalidate(key)
    \/ OrdClear
    \/ \E ttl \in TTLs, update \in BOOLEAN : OrdSetTTL(ttl, update)

SpecOrd == OrdInit /\ [][OrdNext]_vars

(***************************************************************************)
(* C1.  After Sweep(now) returns, no entry whose Expiry is before now      *)
(* remains in the cache, and the evict hook has been invoked exactly once  *)
(* for each entry that was removed.                                        *)
(***************************************************************************)
Expired(c, now) == {i \in 1..Len(c) : After(now, c[i].Expiry)}

HookedOnce(hooks, hook, item) ==
    Cardinality({i \in 1..Len(hooks) :
                    /\ hooks[i].hook = hook
                    /\ hooks[i].Key = item.Key
                    /\ hooks[i].Value = item.Value}) = 1

C1_SweepEvictsAllExpired ==
    [][oLast'.op = "Sweep" =>
          /\ Expired(oCache', oNow') = {}
          /\ \A item \in Range(oCache) \ Range(oCache') :
                 HookedOnce(oHooks', "evict", item)
          /\ Len(oHooks') = Cardinality(Range(oCache) \ Range(oCache'))]_vars

(***************************************************************************)
(* The unordered-map TTL cache (TTLCache[K, V] over map[K]*entry[V]).  The *)
(* map is a function from the keys present to [value, expiry].  The user   *)
(* hooks may abort (panic); whether one does is an input of the call.  An  *)
(* ...Unsafe operator is the mutex-unprotected logic: from the map before  *)
(* the call to [cache, ret, hooks, panicked] after it.                     *)
(***************************************************************************)
\* TTLCache.Init: c.ttl = time.Minute * 5, the unit of this cache's clock.
DefaultTTL == 1

MapEntry(value, expiry) == [value |-> value, expiry |-> expiry]

MapStore(c, key, e) == [k \in DOMAIN c \cup {key} |-> IF k = key THEN e ELSE c[k]]

MapDelete(c, gone) == [k \in DOMAIN c \ gone |-> c[k]]

\* A hook call on the entry at key, made while key is still in the map.
MapHook(hook, c, key) ==
    HookCall(hook, [Key |-> key, Value |-> c[key].value], key \in DOMAIN c)

Outcome(c, ret, hooks, panicked) ==
    [cache |-> c, ret |-> ret, hooks |-> hooks, panicked |-> panicked]

\* The orders in which a range over the map may visit its keys.
Orders(c) == {o \in [1..Cardinality(DOMAIN c) -> DOMAIN c] : Range(o) = DOMAIN c}

HasUnsafe(c, key) == key \in DOMAIN c

GetUnsafe(c, key, now, ttl) ==
    IF key \notin DOMAIN c
    THEN Outcome(c, [value |-> Zero, ok |-> FALSE], <<>>, FALSE)
    ELSE Outcome([c EXCEPT ![key].expiry = now + ttl],
                 [value |-> c[key].value, ok |-> TRUE], <<>>, FALSE)

\* A Put that, on a key already cached, refreshes the entry's expiry.
PutRefresh(c, key, value, now, ttl) ==
    IF key \in DOMAIN c
    THEN Outcome([c EXCEPT ![key].expiry = now + ttl], FALSE, <<>>, FALSE)
    ELSE Outcome(MapStore(c, key, MapEntry(value, now + ttl)), TRUE, <<>>, FALSE)

PutUnsafe(c, key, value, now, ttl) ==
    IF key \in DOMAIN c
    THEN Outcome(c, FALSE, <<>>, FALSE)
    ELSE Outcome(MapStore(c, key, MapEntry(value, now + ttl)), TRUE, <<>>, FALSE)

SetUnsafe(c, key, value, now, ttl, panics) ==
    IF key \in DOMAIN c
    THEN IF panics
         THEN Outcome(c, "none", <<MapHook("invalid", c, key)>>, TRUE)
         ELSE Outcome(MapStore(c, key, MapEntry(value, now + ttl)), "none",
                      <<MapHook("invalid", c, key)>>, FALSE)
    ELSE Outcome(MapStore(c, key, MapEntry(value, now + ttl)), "none", <<>>, FALSE)

CASUnsafe(c, key, cmp, swp, now, ttl, panics) ==
    IF key \notin DOMAIN c \/ c[key].value # cmp
    THEN Outcome(c, FALSE, <<>>, FALSE)
    ELSE IF panics
         THEN Outcome(c, "none", <<MapHook("invalid", c, key)>>, TRUE)
         ELSE Outcome(MapStore(c, key, MapEntry(swp, now + ttl)), TRUE,
                      <<MapHook("invalid", c, key)>>, FALSE)

\* A Swap that keeps the expiry of the entry it replaces the value of.
SwapKeepExpiry(c, key, swp, now, ttl, panics) ==
    IF key \notin DOMAIN c
    THEN Outcome(c, Zero, <<>>, FALSE)
    ELSE IF panics
         THEN Outcome(c, "none", <<MapHook("invalid", c, key)>>, TRUE)
         ELSE Outcome(MapStore(c, key, MapEntry(swp, c[key].expiry)), c[key].value,
                      <<MapHook("invalid", c, key)>>, FALSE)

SwapUnsafe(c, key, swp, now, ttl, panics) ==
    IF key \notin DOMAIN c
    THEN Outcome(c, Zero, <<>>, FALSE)
    ELSE IF panics
         THEN Outcome(c, "none", <<MapHook("invalid", c, key)>>, TRUE)
         ELSE Outcome(MapStore(c, key, MapEntry(swp, now + ttl)), c[key].value,
                      <<MapHook("invalid", c, key)>>, FALSE)

InvalidateUnsafe(c, key, panics) ==
    IF key \notin DOMAIN c
    THEN Outcome(c, FALSE, <<>>, FALSE)
    ELSE IF panics
         THEN Outcome(c, "none", <<MapHook("invalid", c, key)>>, TRUE)
         ELSE Outcome(MapDelete(c, {key}), TRUE,
                      <<MapHook("invalid", c, key)>>, FALSE)

\* A range over the keys in seq, calling hook on each and then deleting it;
\* the hook call number panicAt aborts (0: none does).
HookAndDelete(c, hook, seq, panicAt) ==
    LET called == IF panicAt = 0 THEN seq ELSE SubSeq(seq, 1, panicAt)
        gone   == IF panicAt = 0 THEN seq ELSE SubSeq(seq, 1, panicAt - 1)
    IN  Outcome(MapDelete(c, Range(gone)), "none",
                [i \in 1..Len(called) |->
                    MapHook(hook, MapDelete(c, {called[j] : j \in 1..(i - 1)}), called[i])],
                panicAt # 0)

ClearUnsafe(c, order, panicAt) == HookAndDelete(c, "invalid", order, panicAt)

\* The keys of order whose entry has expired at now, in order.
SweepExpired(c, now, order) ==
    SelectSeq(order, LAMBDA key : After(now, c[key].expiry))

\* SetTTL's loop over the map: entry.expiry.Add(diff) returns the shifted
\* time and does not assign it.
SetTTLShift(e, diff) == e

(***************************************************************************)
(* The public methods: the mutex around the unsafe logic.  `deferred` says *)
(* whether the method unlocks by defer: a plain Unlock() after the call is *)
(* skipped when a hook panics.  The result carries mu, whether the mutex   *)
(* is still held when the method is left.                                  *)
(***************************************************************************)
Locked(r, deferred) ==
    [cache |-> r.cache, ret |-> r.ret, hooks |-> r.hooks,
     panicked |-> r.panicked, mu |-> (r.panicked /\ ~deferred)]

MapGet(c, key, now, ttl) == Locked(GetUnsafe(c, key, now, ttl), FALSE)

MapPut(c, key, value, now, ttl) == Locked(PutUnsafe(c, key, value, now, ttl), FALSE)

MapSet(c, key, value, now, ttl, panics) ==
    Locked(SetUnsafe(c, key, value, now, ttl, panics), TRUE)

\* CAS locks, calls HasUnsafe and unlocks.
MapCAS(c, key, cmp, swp) ==
    Locked(Outcome(c, HasUnsafe(c, key), <<>>, FALSE), FALSE)

MapSwap(c, key, swp, now, ttl, panics) ==
    Locked(SwapUnsafe(c, key, swp, now, ttl, panics), FALSE)

MapHas(c, key) == Locked(Outcome(c, HasUnsafe(c, key), <<>>, FALSE), FALSE)

MapInvalidate(c, key, panics) == Locked(InvalidateUnsafe(c, key, panics), TRUE)

MapClear(c, order, panicAt) == Locked(ClearUnsafe(c, order, panicAt), TRUE)

sweep(c, now, order, panicAt) ==
    Locked(HookAndDelete(c, "evict", SweepExpired(c, now, order), panicAt), TRUE)

\* SetTTL's effect on the map; the new TTL itself is assigned by the caller.
MapSetTTL(c, oldTTL, ttl, update) ==
    LET diff == ttl - oldTTL
    IN  Locked(Outcome(IF update
                       THEN [k \in DOMAIN c |-> SetTTLShift(c[k], diff)]
                       ELSE c,
                       "none", <<>>, FALSE), FALSE)

(***************************************************************************)
(* The unordered-map cache used on its own, one call at a time.  A call    *)
(* starts by taking the mutex, so it needs the mutex free.                 *)
(***************************************************************************)
MapCall(op, key, arg, ret, panicked) ==
    [op |-> op, key |-> key, arg |-> arg, ret |-> ret, panicked |-> panicked]

MapInit ==
    /\ mCache = <<>>
    /\ mTTL = DefaultTTL
    /\ mNow = 0
    /\ mMu = FALSE
    /\ mLast = MapCall("Init", NoKey, Zero, "none", FALSE)
    /\ mHooks = <<>>
    /\ OrdIdle
    /\ ThrIdle
    /\ LkIdle
    /\ ResIdle

MapDone(op, key, arg, r) ==
    /\ mMu = FALSE
    /\ mCache' = r.cache
    /\ mHooks' = r.hooks
    /\ mMu' = r.mu
    /\ mLast' = MapCall(op, key, arg, r.ret, r.panicked)
    /\ UNCHANGED <<mTTL, mNow, notMap>>

MapTick ==
    /\ mNow < MaxTime
    /\ mNow' = mNow + 1
    /\ mLast' = MapCall("Tick", NoKey, Zero, "none", FALSE)
    /\ mHooks' = <<>>
    /\ UNCHANGED <<mCache, mTTL, mMu, notMap>>

DoSweep(order, panicAt) ==
    /\ panicAt <= Len(SweepExpired(mCache, mNow, order))
    /\ MapDone("sweep", NoKey, Zero, sweep(mCache, mNow, order, panicAt))

DoGet(key) == MapDone("Get", key, Zero, MapGet(mCache, key, mNow, mTTL))

DoPut(key, value) ==
    MapDone("Put", key, value, MapPut(mCache, key, value, mNow, mTTL))

DoSet(key, value, panics) ==
    MapDone("Set", key, value, MapSet(mCache, key, value, mNow, mTTL, panics))

DoCAS(key, cmp, swp) ==
    MapDone("CAS", key, <<cmp, swp>>, MapCAS(mCache, key, cmp, swp))

DoSwap(key, swp, panics) ==
    MapDone("Swap", key, swp, MapSwap(mCache, key, swp, mNow, mTTL, panics))

DoHas(key) == MapDone("Has", key, Zero, MapHas(mCache, key))

DoInvalidate(key, panics) ==
    MapDone("Invalidate", key, Zero, MapInvalidate(mCache, key, panics))

DoClear(order, panicAt) ==
    MapDone("Clear", NoKey, Zero, MapClear(mCache, order, panicAt))

DoSetTTL(ttl, update) ==
    /\ mMu = FALSE
    /\ \A k \in DOMAIN MapSetTTL(mCache, mTTL, ttl, update).cache :
           MapSetTTL(mCache, mTTL, ttl, update).cache[k].expiry \in 0..(MaxTime + MaxTTL)
    /\ mCache' = MapSetTTL(mCache, mTTL, ttl, update).cache
    /\ mTTL' = ttl
    /\ mHooks' = <<>>
    /\ mLast' = MapCall("SetTTL", NoKey, <<ttl, update>>, "none", FALSE)
    /\ UNCHANGED <<mNow, mMu, notMap>>

MapNext ==
    \/ MapTick
    \/ \E order \in Orders(mCache) : \E panicAt \in 0..Len(order) : DoSweep(order, panicAt)
    \/ \E key \in Keys : DoGet(key)
    \/ \E key \in Keys, value \in Values : DoPut(key, value)
    \/ \E key \in Keys, value \in Values, panics \in BOOLEAN : DoSet(key, value, panics)
    \/ \E key \in Keys, cmp \in Values, swp \in Values : DoCAS(key, cmp, swp)
    \/ \E key \in Keys, swp \in Values, panics \in BOOLEAN : DoSwap(key, swp, panics)
    \/ \E key \in Keys : DoHas(key)
    \/ \E key \in Keys, panics \in BOOLEAN : DoInvalidate(key, panics)
    \/ \E order \in Orders(mCache) : \E panicAt \in 0..Len(order) : DoClear(order, panicAt)
    \/ \E ttl \in TTLs, update \in BOOLEAN : DoSetTTL(ttl, update)

SpecMap == MapInit /\ [][MapNext]_vars

(***************************************************************************)
(* C2.  The unordered-map cache's public CAS(key, cmp, swp) returns true   *)
(* if and only if key is present and its value equals cmp; when it returns *)
(* true the invalidate hook has been invoked exactly once with the old     *)
(* value, the stored value is swp and the expiry is reset; when it returns *)
(* false the value, the expiry and the hook calls are unchanged.           *)
(***************************************************************************)
C2_CASContract ==
    [][mLast'.op = "CAS" =>
          LET key == mLast'.key
              cmp == mLast'.arg[1]
              swp == mLast'.arg[2]
              ok  == key \in DOMAIN mCache /\ mCache[key].value = cmp
          IN  /\ mLast'.ret = ok
              /\ ok => /\ Len(mHooks') = 1
                       /\ mHooks'[1].hook = "invalid"
                       /\ mHooks'[1].Value = cmp
                       /\ mCache'[key] = MapEntry(swp, mNow + mTTL)
              /\ ~ok => mCache' = mCache /\ mHooks' = <<>>]_vars

(***************************************************************************)
(* C3.  SetTTL(new, update=true) changes the expiry of every entry in the  *)
(* cache by exactly new - old TTL; SetTTL(new, update=false) leaves every  *)
(* expiry unchanged; in both cases the cache TTL becomes new.              *)
(***************************************************************************)
C3_SetTTLShiftsExpiry ==
    [][mLast'.op = "SetTTL" =>
          /\ mTTL' = mLast'.arg[1]
          /\ DOMAIN mCache' = DOMAIN mCache
          /\ \A k \in DOMAIN mCache :
                 /\ mCache'[k].value = mCache[k].value
                 /\ mCache'[k].expiry =
                        IF mLast'.arg[2]
                        THEN mCache[k].expiry + (mTTL' - mTTL)
                        ELSE mCache[k].expiry]_vars

(***************************************************************************)
(* C5.  In the unordered-map cache, when a user hook aborts (panics)       *)
(* during a call, the cache mutex is released on the way out, so that a    *)
(* later call can still take the lock.                                     *)
(***************************************************************************)
C5_PanicReleasesMutex == mLast.panicked => ~mMu

(***************************************************************************)
(* C9.  For Invalidate and the sweep, the user hook for an entry runs only *)
(* after the entry has been removed from the map: when the hook runs, the  *)
(* entry's key is no longer present in the cache.                          *)
(***************************************************************************)
C9_HookAfterRemoval ==
    mLast.op \in {"Invalidate", "sweep"} =>
        \A i \in 1..Len(mHooks) : ~mHooks[i].inCache

(***************************************************************************)
(* Start, Stop and the scheduled Sweep of the expiry-ordered cache, as     *)
(* threads around the cache mutex.  One thread calls Add, Start and Stop;  *)
(* the scheduler runs the job schedule(c.Sweep, freq) returned a cancel    *)
(* func for: it calls Sweep(now) while the job runs, one call at a time,   *)
(* and the cancel func halts the job and then blocks until the call in     *)
(* flight, if any, has returned.                                           *)
(***************************************************************************)
Freqs == {0, 1}

TickAt(at, now) == [at |-> at, now |-> now]

StopInit ==
    /\ oCache = <<>>
    /\ oTTL \in TTLs
    /\ oCap = MaxCap
    /\ oNow = 0
    /\ oStop = FALSE
    /\ oLast = Call("Init", NoKey, Zero, "none")
    /\ oHooks = <<>>
    /\ ThrIdle
    /\ MapIdle
    /\ LkIdle
    /\ ResIdle

\* The calling thread is between calls and the mutex is free: a call that
\* locks, works and unlocks in one step can be made.
CallerFree == pcStop = "idle" /\ sMu = "free"

ThrClock ==
    /\ oNow < MaxTime
    /\ oNow' = oNow + 1
    /\ UNCHANGED <<oCache, oTTL, oCap, oStop, oLast, oHooks, thrVars, notThr>>

ThrAdd(key, value) ==
    /\ CallerFree
    /\ oCache' = Add(oCache, key, value, oNow, oTTL, oCap).cache
    /\ oHooks' = Add(oCache, key, value, oNow, oTTL, oCap).hooks
    /\ oLast' = Call("Add", key, value, Add(oCache, key, value, oNow, oTTL, oCap).ret)
    /\ UNCHANGED <<oTTL, oCap, oNow, oStop, thrVars, notThr>>

\* A Start that schedules a job whenever freq is positive, over a cancel
\* func that is already set.
StartAlways(freq) ==
    /\ pcStop = "idle"
    /\ freq > 0 => sMu = "free"
    /\ oStop' = IF freq > 0 THEN TRUE ELSE oStop
    /\ sJob' = IF freq > 0 THEN sJob + 1 ELSE sJob
    /\ oLast' = Call("Start", NoKey, freq, freq > 0)
    /\ oHooks' = <<>>
    /\ UNCHANGED <<oCache, oTTL, oCap, oNow, sMu, pcStop, pcTick, notThr>>

\* Start: a freq that is not positive starts nothing, and the mutex is not
\* taken for it; otherwise, when no cancel func is set,
\* c.stop = schedule(c.Sweep, freq) and the scheduler runs the job from now on.
Start(freq) ==
    /\ pcStop = "idle"
    /\ freq > 0 => sMu = "free"
    /\ oStop' = IF freq > 0 /\ ~oStop THEN TRUE ELSE oStop
    /\ sJob' = IF freq > 0 /\ ~oStop THEN sJob + 1 ELSE sJob
    /\ oLast' = Call("Start", NoKey, freq, freq > 0 /\ ~oStop)
    /\ oHooks' = <<>>
    /\ UNCHANGED <<oCache, oTTL, oCap, oNow, sMu, pcStop, pcTick, notThr>>

\* Stop: c.Lock()
StopLock ==
    /\ CallerFree
    /\ sMu' = "caller"
    /\ pcStop' = "locked"
    /\ UNCHANGED <<ordVars, sJob, pcTick, notThr>>

\* Stop: ok = c.stop != nil; when ok, c.stop() is entered: the job that
\* c.stop cancels is halted.
StopCancel ==
    /\ pcStop = "locked"
    /\ IF oStop
       THEN sJob' = sJob - 1 /\ pcStop' = "cancel"
       ELSE sJob' = sJob /\ pcStop' = "unlock"
    /\ oLast' = Call("Stop", NoKey, Zero, oStop)
    /\ oHooks' = <<>>
    /\ UNCHANGED <<oCache, oTTL, oCap, oNow, oStop, sMu, pcTick, notThr>>

\* The cancel func returns once no call of Sweep is in flight; c.stop = nil.
CancelReturns ==
    /\ pcStop = "cancel"
    /\ pcTick.at = "idle"
    /\ oStop' = FALSE
    /\ pcStop' = "unlock"
    /\ UNCHANGED <<oCache, oTTL, oCap, oNow, oLast, oHooks, sMu, sJob, pcTick, notThr>>

\* Stop: c.Unlock(); return
StopUnlock ==
    /\ pcStop = "unlock"
    /\ sMu' = "free"
    /\ pcStop' = "idle"
    /\ UNCHANGED <<ordVars, sJob, pcTick, notThr>>

\* The scheduler calls c.Sweep(now).
TickFire ==
    /\ sJob > 0
    /\ pcTick.at = "idle"
    /\ pcTick' = TickAt("lock", oNow)
    /\ UNCHANGED <<ordVars, sMu, sJob, pcStop, notThr>>

\* Sweep: c.Lock()
SweepLock ==
    /\ pcTick.at = "lock"
    /\ sMu = "free"
    /\ sMu' = "tick"
    /\ pcTick' = TickAt("locked", pcTick.now)
    /\ UNCHANGED <<ordVars, sJob, pcStop, notThr>>

\* Sweep: the walk, the truncation and the hooks; the deferred c.Unlock().
SweepUnlock ==
    /\ pcTick.at = "locked"
    /\ oCache' = Sweep(oCache, pcTick.now).cache
    /\ oHooks' = Sweep(oCache, pcTick.now).hooks
    /\ oLast' = Call("Sweep", NoKey, Zero, "none")
    /\ sMu' = "free"
    /\ pcTick' = TickAt("idle", 0)
    /\ UNCHANGED <<oTTL, oCap, oNow, oStop, sJob, pcStop, notThr>>

ThrNext ==
    \/ ThrClock
    \/ \E key \in Keys, value \in Values : ThrAdd(key, value)
    \/ \E freq \in Freqs : Start(freq)
    \/ StopLock
    \/ StopCancel
    \/ CancelReturns
    \/ StopUnlock
    \/ TickFire
    \/ SweepLock
    \/ SweepUnlock

SpecStop == StopInit /\ [][ThrNext]_vars

(***************************************************************************)
(* C4.  A call to Stop() made while the sweeper is running always returns, *)
(* also when a scheduled Sweep is in flight and waiting for the mutex: at  *)
(* no point of a Stop() are the calling thread and the tick both unable to *)
(* take a step.                                                            *)
(***************************************************************************)
C4_StopNeverDeadlocks ==
    pcStop # "idle" =>
        ENABLED (StopCancel \/ CancelReturns \/ StopUnlock \/ SweepLock \/ SweepUnlock)


(***************************************************************************)
(* The lookup cache (lookup.Cache): the expiry-ordered cache with a Map of *)
(* additional keys, (lookup identifier, key) -> primary key, kept by the   *)
(* configured AddLookups and DeleteLookups.  The configuration and the     *)
(* values are those of TestLookupCache: a value is a testEntry, cached     *)
(* under its Key1 and looked up by its Key2, Key3 and Key4.  A key of the  *)
(* Map is written as the sequence of its parts, the empty string as the    *)
(* empty sequence.                                                         *)
(***************************************************************************)
EmptyKey == <<>>

\* Key2 of an entry may change from one value to the next; Key3 and Key4
\* are fixed by Key1.  No key is shared between entries of different Key1.
Tags == {"2a", "2b"}

testEntry(key1, tag) ==
    [Key1 |-> key1, Key2 |-> <<key1, tag>>, Key3 |-> <<key1, "3">>,
     Key4 |-> <<key1, "4">>, Value |-> "value"]

testLookupEntries == {testEntry(key1, tag) : key1 \in Keys, tag \in Tags}

\* A call on the Map made by the configured functions.
LmCall(op, id, key, origKey) == [op |-> op, id |-> id, key |-> key, origKey |-> origKey]

\* The Map is the set of its <<lookup identifier, key, primary key>> links.
LmHas(lm, id, key) == \E l \in lm : l[1] = id /\ l[2] = key

LmGet(lm, id, key) ==
    IF LmHas(lm, id, key)
    THEN [origKey |-> (CHOOSE l \in lm : l[1] = id /\ l[2] = key)[3], ok |-> TRUE]
    ELSE [origKey |-> NoKey, ok |-> FALSE]

LmDelete(lm, id, key) == {l \in lm : ~(l[1] = id /\ l[2] = key)}

LmSet(lm, id, key, origKey) == LmDelete(lm, id, key) \cup {<<id, key, origKey>>}

LmApply(lm, call) ==
    IF call.op = "Set"
    THEN LmSet(lm, call.id, call.key, call.origKey)
    ELSE LmDelete(lm, call.id, call.key)

RECURSIVE LmApplyAll(_, _)
LmApplyAll(lm, calls) ==
    IF calls = <<>> THEN lm ELSE LmApplyAll(LmApply(lm, Head(calls)), Tail(calls))

\* cfg.AddLookups: the calls it makes on the Map for value e, in order.
AddLookups(e) ==
    <<LmCall("Set", "key2", e.Key2, e.Key1),
      LmCall("Set", "key3", e.Key3, e.Key1),
      LmCall("Set", "key4", e.Key4, e.Key1)>>

IsSetKey(call) == call.key # EmptyKey

\* cfg.DeleteLookups: the calls it makes on the Map for value e, in order.
DeleteLookups(e) ==
    SelectSeq(<<LmCall("Delete", "key2", e.Key2, NoKey),
                LmCall("Delete", "key3", e.Key3, NoKey),
                LmCall("Delete", "key4", e.Key4, NoKey)>>, IsSetKey)

\* The (lookup identifier, key) pairs AddLookups derives from value e.
Aliases(e) == {<<AddLookups(e)[i].id, AddLookups(e)[i].key>> : i \in 1..Len(AddLookups(e))}

AllAliases == UNION {Aliases(e) : e \in testLookupEntries}

\* The call of the user's hook made for the cache's hook call h: hook(item.Key,
\* item.Value), with the aliases of the value that are in the Map as it runs.
UserHook(lm, h) ==
    [hook |-> h.hook, Key |-> h.Key, Value |-> h.Value, inCache |-> h.inCache,
     aliases |-> {a \in Aliases(h.Value) : LmHas(lm, a[1], a[2])}]

\* A hook that calls the user's hook and leaves the Map as it is.
WrapperHookOnly(lm, h) == [lookup |-> lm, call |-> UserHook(lm, h)]

\* The hook the lookup cache sets on the underlying cache: the user's hook,
\* then cfg.DeleteLookups.
Wrapper(lm, h) ==
    [lookup |-> LmApplyAll(lm, DeleteLookups(h.Value)), call |-> UserHook(lm, h)]

\* The hook calls of one call on the underlying cache, run in order.
RECURSIVE RunHooks(_, _)
RunHooks(lm, hooks) ==
    IF hooks = <<>>
    THEN [lookup |-> lm, hooks |-> <<>>]
    ELSE LET w == Wrapper(lm, Head(hooks))
             rest == RunHooks(w.lookup, Tail(hooks))
         IN  [lookup |-> rest.lookup, hooks |-> <<w.call>> \o rest.hooks]

\* A call of the embedded cache made through the lookup cache: r is the
\* result of the underlying cache's operator.
Embedded(lm, r) ==
    [cache |-> r.cache, lookup |-> RunHooks(lm, r.hooks).lookup, ret |-> r.ret,
     hooks |-> RunHooks(lm, r.hooks).hooks]

LkAdd(c, lm, key, value, now, ttl, cap) ==
    LET r == Embedded(lm, Add(c, key, value, now, ttl, cap))
    IN  IF r.ret
        THEN [r EXCEPT !.lookup = LmApplyAll(@, AddLookups(value))]
        ELSE r

LkSet(c, lm, key, value, now, ttl, cap) ==
    LET r == Embedded(lm, Set(c, key, value, now, ttl, cap))
    IN  [r EXCEPT !.lookup = LmApplyAll(@, AddLookups(value))]

GetBy(c, lm, id, key, now, ttl) ==
    IF ~LmGet(lm, id, key).ok
    THEN [cache |-> c, lookup |-> lm, ret |-> [value |-> Zero, ok |-> FALSE], hooks |-> <<>>]
    ELSE Embedded(lm, Get(c, LmGet(lm, id, key).origKey, now, ttl))

CASBy(c, lm, id, key, old, new, now, ttl) ==
    IF ~LmGet(lm, id, key).ok
    THEN [cache |-> c, lookup |-> lm, ret |-> FALSE, hooks |-> <<>>]
    ELSE Embedded(lm, CAS(c, LmGet(lm, id, key).origKey, old, new, now, ttl))

SwapBy(c, lm, id, key, swp, now, ttl) ==
    IF ~LmGet(lm, id, key).ok
    THEN [cache |-> c, lookup |-> lm, ret |-> Zero, hooks |-> <<>>]
    ELSE Embedded(lm, Swap(c, LmGet(lm, id, key).origKey, swp, now, ttl))

HasBy(c, lm, id, key) ==
    [cache |-> c, lookup |-> lm, ret |-> LmHas(lm, id, key), hooks |-> <<>>]

InvalidateBy(c, lm, id, key) ==
    IF ~LmGet(lm, id, key).ok
    THEN [cache |-> c, lookup |-> lm, ret |-> FALSE, hooks |-> <<>>]
    ELSE [Embedded(lm, Invalidate(c, LmGet(lm, id, key).origKey)) EXCEPT !.ret = TRUE]

(***************************************************************************)
(* The lookup cache used one call at a time.  Values are cached under      *)
(* their Key1; CASBy and SwapBy are called with an alias of the new        *)
(* value's Key1.                                                           *)
(***************************************************************************)
LkInit ==
    /\ oCache = <<>>
    /\ oTTL = 1
    /\ oCap \in {1, MaxCap}
    /\ oNow = 0
    /\ oStop = FALSE
    /\ oLast = Call("Init", NoKey, Zero, "none")
    /\ oHooks = <<>>
    /\ lookup = {}
    /\ lkHooks = <<>>
    /\ lkPc = <<>>
    /\ MapIdle
    /\ ThrIdle
    /\ ResIdle

\* A call that went through the lookup cache's operator r; of a call by
\* lookup identifier and key, the operation and what it returned are kept.
LkDone(op, key, arg, r) ==
    /\ oCache' = r.cache
    /\ lookup' = r.lookup
    /\ lkHooks' = r.hooks
    /\ oLast' = Call(op, key, arg, r.ret)
    /\ UNCHANGED <<oTTL, oCap, oNow, oStop, oHooks, lkPc, notLk>>

LkTick ==
    /\ oNow < MaxTime
    /\ oNow' = oNow + 1
    /\ oLast' = Call("Tick", NoKey, Zero, "none")
    /\ lkHooks' = <<>>
    /\ UNCHANGED <<oCache, oTTL, oCap, oStop, oHooks, lookup, lkPc, notLk>>

DoLkSweep == LkDone("Sweep", NoKey, Zero, Embedded(lookup, Sweep(oCache, oNow)))

DoLkGet(key) == LkDone("Get", key, Zero, Embedded(lookup, Get(oCache, key, oNow, oTTL)))

DoLkHas(key) == LkDone("Has", key, Zero, Embedded(lookup, Has(oCache, key)))

DoLkAdd(value) ==
    LkDone("Add", value.Key1, Zero, LkAdd(oCache, lookup, value.Key1, value, oNow, oTTL, oCap))

DoLkSet(value) ==
    LkDone("Set", value.Key1, Zero, LkSet(oCache, lookup, value.Key1, value, oNow, oTTL, oCap))

DoGetBy(id, key) ==
    LkDone("GetBy", NoKey, Zero, GetBy(oCache, lookup, id, key, oNow, oTTL))

DoCASBy(id, key, old, new) ==
    LkDone("CASBy", NoKey, Zero, CASBy(oCache, lookup, id, key, old, new, oNow, oTTL))

DoSwapBy(id, key, swp) ==
    LkDone("SwapBy", NoKey, Zero, SwapBy(oCache, lookup, id, key, swp, oNow, oTTL))

DoHasBy(id, key) == LkDone("HasBy", NoKey, Zero, HasBy(oCache, lookup, id, key))

DoLkInvalidate(key) ==
    LkDone("Invalidate", key, Zero, Embedded(lookup, Invalidate(oCache, key)))

DoInvalidateBy(id, key) ==
    LkDone("InvalidateBy", NoKey, Zero, InvalidateBy(oCache, lookup, id, key))

LkNext ==
    \/ LkTick
    \/ DoLkSweep
    \/ \E key \in Keys : DoLkGet(key)
    \/ \E key \in Keys : DoLkHas(key)
    \/ \E value \in testLookupEntries : DoLkAdd(value)
    \/ \E value \in testLookupEntries : DoLkSet(value)
    \/ \E a \in AllAliases : DoGetBy(a[1], a[2])
    \/ \E old \in testLookupEntries, new \in testLookupEntries :
          /\ new.Key1 = old.Key1
          /\ \E a \in Aliases(old) : DoCASBy(a[1], a[2], old, new)
    \/ \E swp \in testLookupEntries, a \in AllAliases :
          /\ a[2][1] = swp.Key1
          /\ DoSwapBy(a[1], a[2], swp)
    \/ \E a \in AllAliases : DoHasBy(a[1], a[2])
    \/ \E key \in Keys : DoLkInvalidate(key)
    \/ \E a \in AllAliases : DoInvalidateBy(a[1], a[2])

SpecLk == LkInit /\ [][LkNext]_vars

(***************************************************************************)
(* C7.  One call at a time: for every live entry and every (lookup, key)   *)
(* that AddLookups derives from the entry's current value, GetBy(lookup,   *)
(* key) returns (v, true) with v the value Get(primary) returns.           *)
(***************************************************************************)
C7_GetByAgreesWithGet ==
    \A i \in 1..Len(oCache) : \A a \in Aliases(oCache[i].Value) :
        /\ GetBy(oCache, lookup, a[1], a[2], oNow, oTTL).ret.ok
        /\ GetBy(oCache, lookup, a[1], a[2], oNow, oTTL).ret
              = Get(oCache, oCache[i].Key, oNow, oTTL).ret

\* The aliases registered in the Map for primary key key.
Registered(lm, key) == {<<l[1], l[2]>> : l \in {m \in lm : m[3] = key}}

(***************************************************************************)
(* C8.  Invalidate(primary) of a live entry: afterwards HasBy is false for *)
(* every alias the entry had registered, Has(primary) is false, and the    *)
(* invalidate hook has fired exactly once, with the entry's primary key    *)
(* and value.                                                              *)
(***************************************************************************)
C8_InvalidateDropsAliases ==
    [][(oLast'.op = "Invalidate" /\ LRUHas(oCache, oLast'.key)) =>
          /\ \A a \in Registered(lookup, oLast'.key) : ~HasBy(oCache', lookup', a[1], a[2]).ret
          /\ ~Has(oCache', oLast'.key).ret
          /\ Len(lkHooks') = 1
          /\ lkHooks'[1].hook = "invalid"
          /\ lkHooks'[1].Key = oLast'.key
          /\ lkHooks'[1].Value = oCache[LRUIndex(oCache, oLast'.key)].Value]_vars

\* An entry with its three aliases registered has been invalidated.
C8_Witness ==
    /\ oLast.op = "Invalidate"
    /\ oLast.ret = TRUE
    /\ Len(lkHooks) = 1
    /\ Cardinality(lkHooks[1].aliases) = 3
    /\ \A a \in lkHooks[1].aliases : ~LmHas(lookup, a[1], a[2])
    /\ ~LRUHas(oCache, oLast.key)

(***************************************************************************)
(* C10.  Whenever an entry is invalidated or evicted, none of its aliases  *)
(* is in the Map any more when the user's hook is invoked for it.          *)
(***************************************************************************)
C10_AliasesGoneInsideHook ==
    \A i \in 1..Len(lkHooks) : lkHooks[i].aliases = {}


(***************************************************************************)
(* The lookup cache used by several threads at once.  A call of the        *)
(* embedded cache runs under the cache mutex, its hooks included; the Map  *)
(* is a lock-free hashmap, each call on it a step of its own: the calls    *)
(* DeleteLookups makes from inside a hook are made while the mutex is      *)
(* held, the calls AddLookups makes in Add and Set, and the lookup.Get of  *)
(* InvalidateBy, without it.                                               *)
(*   lkPc[t].at       "idle", or what thread t does next: "hooks" (the Map *)
(*                    calls of the hooks, the mutex held), "lookups" (the  *)
(*                    Map calls of AddLookups), "invalidate" (the call of  *)
(*                    Cache.Invalidate in InvalidateBy)                     *)
(*   lkPc[t].key      the primary key InvalidateBy found                   *)
(*   lkPc[t].hooks    the Map calls the hooks have still to make           *)
(*   lkPc[t].lookups  the Map calls AddLookups has still to make           *)
(***************************************************************************)
Threads == {"t1", "t2"}

Pc(at, key, hooks, lookups) == [at |-> at, key |-> key, hooks |-> hooks, lookups |-> lookups]

Returned == Pc("idle", NoKey, <<>>, <<>>)

\* The Map calls the hooks of one call on the underlying cache make, in order.
RECURSIVE HookLookups(_)
HookLookups(hooks) ==
    IF hooks = <<>> THEN <<>> ELSE DeleteLookups(Head(hooks).Value) \o HookLookups(Tail(hooks))

\* Where a thread goes on once the mutex is released.
Unlocked(lookups) ==
    IF lookups = <<>> THEN Returned ELSE Pc("lookups", NoKey, <<>>, lookups)

ConcInit ==
    /\ oCache = <<>>
    /\ oTTL = 1
    /\ oCap \in {1, MaxCap}
    /\ oNow = 0
    /\ oStop = FALSE
    /\ oLast = Call("Init", NoKey, Zero, "none")
    /\ oHooks = <<>>
    /\ sMu = "free"
    /\ sJob = 0
    /\ pcStop = "idle"
    /\ pcTick = TickAt("idle", 0)
    /\ lookup = {}
    /\ lkHooks = <<>>
    /\ lkPc = [t \in Threads |-> Returned]
    /\ MapIdle
    /\ ResIdle

\* What the threads using the lookup cache leave alone.
notConc == <<oTTL, oCap, oStop, oLast, oHooks, sJob, pcStop, pcTick, lkHooks, mapVars, resVars>>

\* Thread t locks the mutex and makes the call with result r on the embedded
\* cache; the Map calls of its hooks follow, and then those of lookups.
Lock(t, r, lookups) ==
    /\ lkPc[t].at \in {"idle", "invalidate"}
    /\ sMu = "free"
    /\ oCache' = r.cache
    /\ IF HookLookups(r.hooks) = <<>>
       THEN /\ sMu' = "free"
            /\ lkPc' = [lkPc EXCEPT ![t] = Unlocked(lookups)]
       ELSE /\ sMu' = t
            /\ lkPc' = [lkPc EXCEPT ![t] = Pc("hooks", NoKey, HookLookups(r.hooks), lookups)]
    /\ UNCHANGED <<oNow, lookup, notConc>>

ConcClock ==
    /\ oNow < MaxTime
    /\ oNow' = oNow + 1
    /\ UNCHANGED <<oCache, sMu, lookup, lkPc, notConc>>

ConcAdd(t, value) ==
    /\ lkPc[t].at = "idle"
    /\ Lock(t, Add(oCache, value.Key1, value, oNow, oTTL, oCap),
            IF Add(oCache, value.Key1, value, oNow, oTTL, oCap).ret
            THEN AddLookups(value) ELSE <<>>)

ConcSet(t, value) ==
    /\ lkPc[t].at = "idle"
    /\ Lock(t, Set(oCache, value.Key1, value, oNow, oTTL, oCap), AddLookups(value))

ConcInvalidate(t, key) ==
    /\ lkPc[t].at = "idle"
    /\ Lock(t, Invalidate(oCache, key), <<>>)

ConcSweep(t) ==
    /\ lkPc[t].at = "idle"
    /\ Lock(t, Sweep(oCache, oNow), <<>>)

\* InvalidateBy: c.lookup.Get(lookup, key)
ConcInvalidateBy(t, id, key) ==
    /\ lkPc[t].at = "idle"
    /\ lkPc' = [lkPc EXCEPT ![t] =
                  IF LmGet(lookup, id, key).ok
                  THEN Pc("invalidate", LmGet(lookup, id, key).origKey, <<>>, <<>>)
                  ELSE Returned]
    /\ UNCHANGED <<oCache, oNow, sMu, lookup, notConc>>

\* InvalidateBy: c.Cache.Invalidate(origKey)
ConcInvalidateOrig(t) ==
    /\ lkPc[t].at = "invalidate"
    /\ Lock(t, Invalidate(oCache, lkPc[t].key), <<>>)

\* The next Map call of a hook; after the last one the call on the
\* embedded cache returns and the mutex is released.
ConcHook(t) ==
    /\ lkPc[t].at = "hooks"
    /\ lookup' = LmApply(lookup, Head(lkPc[t].hooks))
    /\ IF Tail(lkPc[t].hooks) = <<>>
       THEN /\ sMu' = "free"
            /\ lkPc' = [lkPc EXCEPT ![t] = Unlocked(lkPc[t].lookups)]
       ELSE /\ sMu' = sMu
            /\ lkPc' = [lkPc EXCEPT ![t].hooks = Tail(@)]
    /\ UNCHANGED <<oCache, oNow, notConc>>

\* The next Map call of AddLookups; after the last one Add or Set returns.
ConcLookup(t) ==
    /\ lkPc[t].at = "lookups"
    /\ lookup' = LmApply(lookup, Head(lkPc[t].lookups))
    /\ lkPc' = [lkPc EXCEPT ![t] = Unlocked(Tail(lkPc[t].lookups))]
    /\ UNCHANGED <<oCache, oNow, sMu, notConc>>

ConcNext ==
    \/ ConcClock
    \/ \E t \in Threads, value \in testLookupEntries : ConcAdd(t, value)
    \/ \E t \in Threads, value \in testLookupEntries : ConcSet(t, value)
    \/ \E t \in Threads, key \in Keys : ConcInvalidate(t, key)
    \/ \E t \in Threads : ConcSweep(t)
    \/ \E t \in Threads, a \in AllAliases : ConcInvalidateBy(t, a[1], a[2])
    \/ \E t \in Threads : ConcInvalidateOrig(t)
    \/ \E t \in Threads : ConcHook(t)
    \/ \E t \in Threads : ConcLookup(t)

SpecLkConc == ConcInit /\ [][ConcNext]_vars

\* Every call made on the lookup cache has returned.
AllReturned == \A t \in Threads : lkPc[t] = Returned

(***************************************************************************)
(* C6.  Under any interleaving of concurrent Add, Set, Invalidate,         *)
(* InvalidateBy and Sweep calls: once all calls have returned, every       *)
(* (lookup, key) in the Map resolves to a primary key that is in the       *)
(* cache, and every entry in the cache has all the aliases of its value    *)
(* in the Map.                                                             *)
(***************************************************************************)
C6_MapAgreesWithCache ==
    AllReturned =>
        /\ \A l \in lookup : HasBy(oCache, lookup, l[1], l[2]).ret => Has(oCache, l[3]).ret
        /\ \A i \in 1..Len(oCache) : \A a \in Aliases(oCache[i].Value) :
              LmGet(lookup, a[1], a[2]) = [origKey |-> oCache[i].Key, ok |-> TRUE]


(***************************************************************************)
(* A cache of either implementation, used one call at a time: the          *)
(* behaviours of the expiry-ordered cache together with those of the       *)
(* unordered-map cache.  The cache that is not in use stays idle.          *)
(***************************************************************************)
CachesInit == OrdInit \/ MapInit

CachesNext ==
    \/ oLast.op # "Idle" /\ OrdNext
    \/ mLast.op # "Idle" /\ MapNext

SpecCaches == CachesInit /\ [][CachesNext]_vars


(***************************************************************************)
(* C11.  Put/Add(k, v) with k absent returns true, after which Has(k) is   *)
(* true and Get(k) returns (v, true); Put/Add(k, v') with k present        *)
(* returns false and Get(k) still returns the value it returned before.    *)
(***************************************************************************)
C11_AddOnlyIfAbsent ==
    [][/\ oLast'.op = "Add" =>
             LET k == oLast'.key
                 got == Get(oCache', k, oNow', oTTL').ret
             IN  /\ oLast'.ret = ~Has(oCache, k).ret
                 /\ Has(oCache', k).ret
                 /\ got = IF oLast'.ret
                          THEN [value |-> oLast'.arg, ok |-> TRUE]
                          ELSE Get(oCache, k, oNow, oTTL).ret
       /\ mLast'.op = "Put" =>
             LET k == mLast'.key
                 got == MapGet(mCache', k, mNow', mTTL').ret
             IN  /\ mLast'.ret = ~MapHas(mCache, k).ret
                 /\ MapHas(mCache', k).ret
                 /\ got = IF mLast'.ret
                          THEN [value |-> mLast'.arg, ok |-> TRUE]
                          ELSE MapGet(mCache, k, mNow, mTTL).ret]_vars

\* A second Add of a key, with another value than the one cached, returned
\* false.
C11_Witness ==
    /\ oLast.op = "Add"
    /\ oLast.ret = FALSE
    /\ Get(oCache, oLast.key, oNow, oTTL).ret.ok
    /\ Get(oCache, oLast.key, oNow, oTTL).ret.value # oLast.arg


(***************************************************************************)
(* C12.  Put/Add on a key that is already present leaves the cache as it   *)
(* was: the values, the expiries and the size are unchanged and no         *)
(* invalidate or evict hook is called.                                     *)
(***************************************************************************)
C12_AddOnPresentIsNoOp ==
    [][/\ (oLast'.op = "Add" /\ Has(oCache, oLast'.key).ret) =>
             /\ oCache' = oCache
             /\ oTTL' = oTTL
             /\ oHooks' = <<>>
       /\ (mLast'.op = "Put" /\ MapHas(mCache, mLast'.key).ret) =>
             /\ mCache' = mCache
             /\ mTTL' = mTTL
             /\ mHooks' = <<>>]_vars

\* A Put on a cached key whose expiry is not the one a fresh entry would get.
C12_Witness ==
    /\ mLast.op = "Put"
    /\ mLast.ret = FALSE
    /\ MapHas(mCache, mLast.key).ret
    /\ mCache[mLast.key].expiry # mNow + mTTL


\* The calls of the invalidate hook among hooks, in order.
InvalidCalls(hooks) == SelectSeq(hooks, LAMBDA h : h.hook = "invalid")

\* The calls of the evict hook among hooks, in order.
EvictCalls(hooks) == SelectSeq(hooks, LAMBDA h : h.hook = "evict")

\* The hook calls made are exactly one call of the invalidate hook, with
\* key and value.
InvalidatedOnce(hooks, key, value) ==
    /\ Len(hooks) = 1
    /\ hooks[1].hook = "invalid"
    /\ hooks[1].Key = key
    /\ hooks[1].Value = value

(***************************************************************************)
(* C13.  After Set(k, v) has returned, Get(k) returns (v, true); if k held *)
(* a value v_old the invalidate hook was called exactly once during the    *)
(* Set, with v_old; if k was absent the invalidate hook was not called.    *)
(* (A Set of an absent key into a full expiry-ordered cache drops the      *)
(* oldest entry, which is handed to the evict hook.)                       *)
(***************************************************************************)
C13_SetStoresAndInvalidatesOld ==
    [][/\ oLast'.op = "Set" =>
             LET k == oLast'.key
             IN  /\ Get(oCache', k, oNow', oTTL').ret = [value |-> oLast'.arg, ok |-> TRUE]
                 /\ IF Has(oCache, k).ret
                    THEN InvalidatedOnce(oHooks', k, Get(oCache, k, oNow, oTTL).ret.value)
                    ELSE /\ InvalidCalls(oHooks') = <<>>
                         /\ \A i \in 1..Len(oHooks') : oHooks'[i].Key # k
       /\ (mLast'.op = "Set" /\ ~mLast'.panicked) =>
             LET k == mLast'.key
             IN  /\ MapGet(mCache', k, mNow', mTTL').ret = [value |-> mLast'.arg, ok |-> TRUE]
                 /\ IF MapHas(mCache, k).ret
                    THEN InvalidatedOnce(mHooks', k, mCache[k].value)
                    ELSE mHooks' = <<>>]_vars

\* A Set has replaced a value by another one and handed the old one to the
\* invalidate hook.
C13_Witness ==
    /\ oLast.op = "Set"
    /\ Len(oHooks) = 1
    /\ oHooks[1].hook = "invalid"
    /\ oHooks[1].Value # oLast.arg
    /\ Get(oCache, oLast.key, oNow, oTTL).ret.value = oLast.arg


\* C13 as stated, for the expiry-ordered cache: a Set of an absent key calls
\* no hook at all.
C13_SetOfAbsentCallsNoHook ==
    [][oLast'.op = "Set" =>
          LET k == oLast'.key
          IN  /\ Get(oCache', k, oNow', oTTL').ret = [value |-> oLast'.arg, ok |-> TRUE]
              /\ IF Has(oCache, k).ret
                 THEN InvalidatedOnce(oHooks', k, Get(oCache, k, oNow, oTTL).ret.value)
                 ELSE oHooks' = <<>>]_vars


C15_SwapOfAbsentSets ==
    [][(mLast'.op = "Swap" /\ ~MapHas(mCache, mLast'.key).ret) =>
          /\ mLast'.ret = Zero
          /\ MapHas(mCache', mLast'.key).ret
          /\ MapGet(mCache', mLast'.key, mNow', mTTL').ret
                = [value |-> mLast'.arg, ok |-> TRUE]]_vars


(***************************************************************************)
(* C16.  Invalidate(k) returns true if and only if Has(k) was true just    *)
(* before.  When it returns true the invalidate hook was called exactly    *)
(* once, with the value k held, and Has(k) is false afterwards; when it    *)
(* returns false nothing has changed and no hook was called.               *)
(***************************************************************************)
C16_InvalidateContract ==
    [][/\ oLast'.op = "Invalidate" =>
             LET k == oLast'.key
             IN  /\ oLast'.ret = Has(oCache, k).ret
                 /\ IF oLast'.ret
                    THEN /\ InvalidatedOnce(oHooks', k, oCache[LRUIndex(oCache, k)].Value)
                         /\ ~Has(oCache', k).ret
                         /\ Len(oCache') = Len(oCache) - 1
                    ELSE /\ oCache' = oCache
                         /\ oHooks' = <<>>
       /\ (mLast'.op = "Invalidate" /\ ~mLast'.panicked) =>
             LET k == mLast'.key
             IN  /\ mLast'.ret = MapHas(mCache, k).ret
                 /\ IF mLast'.ret
                    THEN /\ InvalidatedOnce(mHooks', k, mCache[k].value)
                         /\ ~MapHas(mCache', k).ret
                         /\ DOMAIN mCache' = DOMAIN mCache \ {k}
                    ELSE /\ mCache' = mCache
                         /\ mHooks' = <<>>]_vars

\* One of two cached entries has been invalidated.
C16_Witness ==
    /\ oLast.op = "Invalidate"
    /\ oLast.ret = TRUE
    /\ Len(oHooks) = 1
    /\ oHooks[1].Key = oLast.key
    /\ ~Has(oCache, oLast.key).ret
    /\ Len(oCache) = 1


(***************************************************************************)
(* C17.  After Clear() has returned the size of the cache is 0, the        *)
(* invalidate hook has been called exactly once for each entry that was    *)
(* present when Clear started, and the evict hook not at all.              *)
(***************************************************************************)
C17_ClearInvalidatesAll ==
    [][/\ oLast'.op = "Clear" =>
             /\ Len(oCache') = 0
             /\ \A item \in Range(oCache) : HookedOnce(oHooks', "invalid", item)
             /\ Len(oHooks') = Len(oCache)
             /\ EvictCalls(oHooks') = <<>>
       /\ (mLast'.op = "Clear" /\ ~mLast'.panicked) =>
             /\ Cardinality(DOMAIN mCache') = 0
             /\ \A k \in DOMAIN mCache :
                    HookedOnce(mHooks', "invalid", [Key |-> k, Value |-> mCache[k].value])
             /\ Len(mHooks') = Cardinality(DOMAIN mCache)
             /\ EvictCalls(mHooks') = <<>>]_vars

\* A cache of two entries has been cleared.
C17_Witness ==
    /\ oLast.op = "Clear"
    /\ Len(oCache) = 0
    /\ Len(oHooks) = 2
    /\ oHooks[1].Key # oHooks[2].Key


(***************************************************************************)
(* C18.  Sliding TTL: a Get(k) that hits sets the entry's expiry to the    *)
(* time of the Get plus the current TTL and calls no hook; Has(k) changes  *)
(* no entry's expiry and no entry's position in the expiry-ordered map,    *)
(* whether k is present or not.                                            *)
(***************************************************************************)
C18_GetRefreshesHasDoesNot ==
    [][/\ (oLast'.op = "Get" /\ oLast'.ret.ok) =>
             /\ oCache'[LRUIndex(oCache', oLast'.key)]
                   = Entry(oLast'.key, oLast'.ret.value, oNow + oTTL)
             /\ oLast'.ret.value = oCache[LRUIndex(oCache, oLast'.key)].Value
             /\ oHooks' = <<>>
       /\ oLast'.op = "Has" =>
             /\ oCache' = oCache
             /\ oHooks' = <<>>
       /\ (mLast'.op = "Get" /\ mLast'.ret.ok) =>
             /\ mCache'[mLast'.key] = MapEntry(mCache[mLast'.key].value, mNow + mTTL)
             /\ mLast'.ret.value = mCache[mLast'.key].value
             /\ mHooks' = <<>>
       /\ mLast'.op = "Has" =>
             /\ mCache' = mCache
             /\ mHooks' = <<>>]_vars

\* A Get has hit an entry placed before another one, and has moved its
\* expiry past the other one's.
C18_Witness ==
    /\ oLast.op = "Get"
    /\ oLast.ret.ok
    /\ Len(oCache) = 2
    /\ oCache[1].Key = oLast.key
    /\ oCache[1].Expiry = oNow + oTTL
    /\ oCache[2].Expiry < oCache[1].Expiry


(***************************************************************************)
(* C19.  Start(freq) starts the sweeper and returns true only when the     *)
(* sweeper is not running and freq > 0, otherwise it returns false and     *)
(* changes nothing; Stop() stops it and returns true only when it was      *)
(* running, otherwise it returns false; after a Stop that returned true a  *)
(* second Stop returns false and a following Start(freq > 0) returns true; *)
(* at most one sweeper job is ever active.  Stop is taken at the step that *)
(* fixes its result, and "returned" at its last step.                      *)
(***************************************************************************)
\* The last call that returned was a Stop that returned true.
StopReturnedTrue ==
    /\ oLast.op = "Stop"
    /\ oLast.ret = TRUE
    /\ pcStop \in {"idle", "locked"}

\* The step is a call of Start: it records the call, and a Start that
\* records what the call before it recorded changes nothing at all.
StartStep ==
    /\ oLast'.op = "Start"
    /\ oLast.op = "Start" => (oLast'.arg # oLast.arg \/ oLast'.ret # oLast.ret)

\* The step of Stop that fixes its result, and the step that returns.
StopStep == pcStop = "locked" /\ pcStop' # "locked"

StopReturns == pcStop = "unlock" /\ pcStop' = "idle"

C19_StartStopContract ==
    [][/\ StartStep =>
             /\ oLast'.ret = (oLast'.arg > 0 /\ ~oStop)
             /\ oLast'.ret => oStop' /\ sJob' = 1
             /\ ~oLast'.ret =>
                   UNCHANGED <<oCache, oTTL, oCap, oNow, oStop, thrVars>>
       /\ StopStep =>
             /\ oLast'.op = "Stop"
             /\ oLast'.ret = oStop
             /\ oLast'.ret => sJob' = 0
             /\ ~oLast'.ret =>
                   UNCHANGED <<oCache, oTTL, oCap, oNow, oStop, sMu, sJob, pcTick>>
       /\ StopReturns => oLast'.op = "Stop" /\ ~oStop' /\ sJob' = 0
       /\ (StopReturnedTrue /\ StopStep) => oLast'.ret = FALSE
       /\ (StopReturnedTrue /\ StartStep /\ oLast'.arg > 0) => oLast'.ret = TRUE
       /\ sJob' <= 1]_vars

\* A second Stop is under way right after a Stop that returned true.
C19_Witness ==
    /\ StopReturnedTrue
    /\ pcStop = "locked"
    /\ ~oStop


(***************************************************************************)
(* The result cache (result.Cache): the expiry-ordered cache keyed by      *)
(* primary keys minted from a counter, each entry a result (a value or an  *)
(* error) with the cache keys it is reachable under, and per lookup a map  *)
(* of cache key -> primary key (structKey.pkeys; here the links of         *)
(* lookup).  Values are testType structs behind a pointer; ptr tells whose *)
(* pointer a value is.  A string is the sequence of its characters, and a  *)
(* cache key is the sequence that the encoder appends to its buffer.       *)
(***************************************************************************)
\* The primary key counter stops at MaxNext.
MaxNext == 2

testLookups ==
    <<[Name |-> "Field1", AllowZero |-> TRUE],
      [Name |-> "Field5.Field6", AllowZero |-> TRUE],
      [Name |-> "Field13", AllowZero |-> FALSE]>>

\* strings.Split(name, "."): the struct fields a lookup encompasses.
structFields(name) ==
    CASE name = "Field1" -> <<"Field1">>
      [] name = "Field5.Field6" -> <<"Field5", "Field6">>
      [] name = "Field13" -> <<"Field13">>

testType(f1, f5, f6, f13) ==
    [ptr |-> "arg", Field1 |-> f1, Field5 |-> f5, Field6 |-> f6, Field13 |-> f13]

\* Field1 is shared by the first and the third entry, Field13 by the second
\* and the third; the first has a zero Field13; Field5 and Field6 of the
\* first and of the second differ and are the same characters when joined.
testEntries ==
    {testType(<<"m">>, <<"a">>, <<"b", "c">>, 0),
     testType(<<"s">>, <<"a", "b">>, <<"c">>, 1),
     testType(<<"m">>, <<"x">>, <<"y">>, 1)}

\* var zero Value: the nil pointer.
NilValue == [ptr |-> "nil", Field1 |-> <<>>, Field5 |-> <<>>, Field6 |-> <<>>, Field13 |-> 0]

\* A copy function that returns its argument.
copyNone(tt) == tt

\* The copy function of TestCache: a new struct with the fields of tt.
copy(tt) == [tt EXCEPT !.ptr = "copy"]

\* Field1, Field5 and Field6 are strings, Field13 is an int.
encode(field, a) == IF field = "Field13" THEN <<ToString(a)>> ELSE a

IsZero(field, a) == IF field = "Field13" THEN a = 0 ELSE a = <<>>

\* The key parts of a lookup taken from the fields of tt.
Fields(name, tt) ==
    [i \in 1..Len(structFields(name)) |-> tt[structFields(name)[i]]]

RECURSIVE encodeAll(_, _)
encodeAll(fields, parts) ==
    IF parts = <<>>
    THEN <<>>
    ELSE encode(Head(fields), Head(parts)) \o encodeAll(Tail(fields), Tail(parts))

\* The cache key string: the lookup's name, '.', and each part encoded.
genKey(name, parts) == <<name, ".">> \o encodeAll(structFields(name), parts)

cacheKey(name, key) == [name |-> name, key |-> key]

AllZero(name, parts) ==
    \A i \in 1..Len(parts) : IsZero(structFields(name)[i], parts[i])

\* Whether a value is cached under the lookup: its fields are not all zero,
\* or the lookup allows zero keys.
Derivable(lk, tt) == lk.AllowZero \/ ~AllZero(lk.Name, Fields(lk.Name, tt))

\* The cache keys of a value, one per lookup it is cached under.
generate(tt) ==
    LET all == [i \in 1..Len(testLookups) |->
                   [lk |-> testLookups[i], parts |-> Fields(testLookups[i].Name, tt)]]
        keep(x) == x.lk.AllowZero \/ ~AllZero(x.lk.Name, x.parts)
        kept == SelectSeq(all, keep)
    IN  [i \in 1..Len(kept) |->
            cacheKey(kept[i].lk.Name, genKey(kept[i].lk.Name, kept[i].parts))]

\* A drop that leaves the keys as they are.
dropNone(keys, name) == keys

\* cacheKeys.drop(name): the keys without the key of the named lookup.
drop(keys, name) ==
    LET other(k) == k.name # name
    IN  SelectSeq(keys, other)

\* An error result that is also given a key of the lookup Field13.
resultExtraKey(keys, value, err) ==
    [Keys |-> IF err # "nil"
              THEN keys \o <<cacheKey("Field13", <<"Field13", ".", "9">>)>>
              ELSE keys,
     Value |-> value, Error |-> err]

result(keys, value, err) == [Keys |-> keys, Value |-> value, Error |-> err]

\* An ignore function that matches no error.
ignoreNone(err) == FALSE

\* An ignore function that matches every error.
ignoreAll(err) == TRUE

\* The default of IgnoreErrors: context.Canceled and context.DeadlineExceeded.
ignore(err) == err \in {"canceled", "deadline"}

\* delete(pkeys, key.key) for each key of an item.
DeleteKeys(lm, keys) ==
    {l \in lm : ~\E i \in 1..Len(keys) : keys[i].name = l[1] /\ keys[i].key = l[2]}

\* pkeys[key.key] = pkey for each key of a result.
RECURSIVE SetKeys(_, _, _)
SetKeys(lm, keys, pkey) ==
    IF keys = <<>>
    THEN lm
    ELSE SetKeys(LmSet(lm, Head(keys).name, Head(keys).key, pkey), Tail(keys), pkey)

\* A hook that calls the user's hook for error items too.
ResultHookAlways(lm, h) ==
    [lookup |-> DeleteKeys(lm, h.Value.Keys),
     calls |-> <<[hook |-> h.hook, Value |-> h.Value.Value]>>]

\* A hook that deletes the item's keys and never calls the user's hook.
ResultHookSilent(lm, h) == [lookup |-> DeleteKeys(lm, h.Value.Keys), calls |-> <<>>]

\* The hook the result cache sets on the underlying cache, for the hook call
\* h: the item's keys are deleted, then the user's hook is called with the
\* value, unless the item is an error.
ResultHook(lm, h) ==
    [lookup |-> DeleteKeys(lm, h.Value.Keys),
     calls |-> IF h.Value.Error # "nil"
               THEN <<>>
               ELSE <<[hook |-> h.hook, Value |-> h.Value.Value]>>]

RECURSIVE RunResultHooks(_, _)
RunResultHooks(lm, hooks) ==
    IF hooks = <<>>
    THEN [lookup |-> lm, hooks |-> <<>>]
    ELSE LET w == ResultHook(lm, Head(hooks))
             rest == RunResultHooks(w.lookup, Tail(hooks))
         IN  [lookup |-> rest.lookup, hooks |-> w.calls \o rest.hooks]

\* The primary key counter is a signed integer of CounterBits bits (64 in
\* the source); incrementing the largest value wraps around to the smallest.
CounterBits == 4
MinPKey == 0 - 2^(CounterBits - 1)
MaxPKey == 2^(CounterBits - 1) - 1
Inc(n) == IF n = MaxPKey THEN MinPKey ELSE n + 1

\* The first loop of store: each key of the new result is dropped from the
\* entry it points to now, and an entry left without keys is deleted.  A
\* key that points to an entry the cache no longer holds makes Get return
\* nil, and the loop panics on it.
RECURSIVE storeDrop(_, _, _)
storeDrop(c, lm, keys) ==
    IF keys = <<>>
    THEN [cache |-> c, panic |-> FALSE]
    ELSE LET found == LmGet(lm, Head(keys).name, Head(keys).key)
         IN  IF ~found.ok
             THEN storeDrop(c, lm, Tail(keys))
             ELSE IF ~LRUHas(c, found.origKey)
             THEN [cache |-> c, panic |-> TRUE]
             ELSE LET g == LRUGet(c, found.origKey)
                      left == drop(g[1].Value.Keys, Head(keys).name)
                  IN  storeDrop(IF left = <<>>
                                THEN LRUDelete(g, found.origKey)
                                ELSE [g EXCEPT ![1].Value.Keys = left],
                                lm, Tail(keys))

\* A store that leaves the entries its keys point to as they are.
storeKeepKeys(c, lm, nxt, res, now, ttl, cap) ==
    LET s == LRUSet(c, Entry(nxt, res, now + ttl), cap)
        h == RunResultHooks(SetKeys(lm, res.Keys, nxt), DropHooks(s.dropped))
    IN  [cache |-> s.cache, lookup |-> h.lookup, next |-> nxt + 1, hooks |-> h.hooks,
         panic |-> FALSE]

\* store: the keys are dropped from the entries that hold them, the primary
\* key is taken from the counter, the counter is incremented, and store
\* panics when the counter has wrapped around; else the keys are mapped to
\* the primary key and the entry is set, the entry dropped at capacity
\* going through the evict hook.  A panic leaves what was changed before it.
store(c, lm, nxt, res, now, ttl, cap) ==
    LET d == storeDrop(c, lm, res.Keys)
        pkey == nxt
        s == LRUSet(d.cache, Entry(pkey, res, now + ttl), cap)
        h == RunResultHooks(SetKeys(lm, res.Keys, pkey), DropHooks(s.dropped))
    IN  IF d.panic
        THEN [cache |-> d.cache, lookup |-> lm, next |-> nxt, hooks |-> <<>>,
              panic |-> TRUE]
        ELSE IF pkey > Inc(nxt)
        THEN [cache |-> d.cache, lookup |-> lm, next |-> Inc(nxt), hooks |-> <<>>,
              panic |-> TRUE]
        ELSE [cache |-> s.cache, lookup |-> h.lookup, next |-> Inc(nxt),
              hooks |-> h.hooks, panic |-> FALSE]

\* What a call of Load or Has returns: the value, the error, and whether the
\* load function was called.
Loaded(value, err, loaded) == [value |-> value, err |-> err, loaded |-> loaded]

\* Load: load is what the load function returns when it is called.
Load(c, lm, nxt, name, load, parts, now, ttl, cap) ==
    LET ckey == genKey(name, parts)
        found == LmGet(lm, name, ckey)
    IN  IF found.ok
        THEN LET g == LRUGet(c, found.origKey)
             IN  [cache |-> g, lookup |-> lm, next |-> nxt, hooks |-> <<>>,
                  ret |-> IF g[1].Value.Error # "nil"
                          THEN Loaded(NilValue, g[1].Value.Error, FALSE)
                          ELSE Loaded(copy(g[1].Value.Value), "nil", FALSE)]
        ELSE IF load.err # "nil" /\ ignore(load.err)
        THEN [cache |-> c, lookup |-> lm, next |-> nxt, hooks |-> <<>>,
              ret |-> Loaded(NilValue, load.err, TRUE)]
        ELSE LET res == IF load.err # "nil"
                        THEN result(<<cacheKey(name, ckey)>>, NilValue, load.err)
                        ELSE result(generate(load.value), load.value, "nil")
                 s == store(c, lm, nxt, res, now, ttl, cap)
             IN  [cache |-> s.cache, lookup |-> s.lookup, next |-> s.next,
                  hooks |-> s.hooks,
                  ret |-> IF s.panic
                          THEN Loaded(NilValue, "panic", TRUE)
                          ELSE IF load.err # "nil"
                          THEN Loaded(NilValue, load.err, TRUE)
                          ELSE Loaded(copy(load.value), "nil", TRUE)]

\* A Store that caches the value whatever the store function returns.
StoreAlways(c, lm, nxt, value, persist, now, ttl, cap) ==
    LET s == store(c, lm, nxt, result(generate(value), copy(value), "nil"),
                   now, ttl, cap)
    IN  [cache |-> s.cache, lookup |-> s.lookup, next |-> s.next,
         hooks |-> s.hooks \o <<[hook |-> "invalid", Value |-> value]>>,
         ret |-> persist]

\* Store: persist is what the store function returns; a panic of store
\* passes through Store, which unlocks on its way out.
Store(c, lm, nxt, value, persist, now, ttl, cap) ==
    IF persist # "nil"
    THEN [cache |-> c, lookup |-> lm, next |-> nxt, hooks |-> <<>>, ret |-> persist]
    ELSE LET s == store(c, lm, nxt, result(generate(value), copy(value), "nil"),
                        now, ttl, cap)
         IN  [cache |-> s.cache, lookup |-> s.lookup, next |-> s.next,
              hooks |-> IF s.panic
                        THEN s.hooks
                        ELSE s.hooks \o <<[hook |-> "invalid", Value |-> value]>>,
              ret |-> IF s.panic THEN "panic" ELSE "nil"]

ResHas(c, lm, nxt, name, parts) ==
    LET found == LmGet(lm, name, genKey(name, parts))
    IN  IF found.ok
        THEN [cache |-> LRUGet(c, found.origKey), lookup |-> lm, next |-> nxt,
              hooks |-> <<>>, ret |-> LRUGet(c, found.origKey)[1].Value.Error = "nil"]
        ELSE [cache |-> c, lookup |-> lm, next |-> nxt, hooks |-> <<>>, ret |-> FALSE]

\* A call of the underlying cache made by the result cache: r is the result
\* of the underlying cache's operator.
Underlying(lm, nxt, r) ==
    [cache |-> r.cache, lookup |-> RunResultHooks(lm, r.hooks).lookup, next |-> nxt,
     hooks |-> RunResultHooks(lm, r.hooks).hooks, ret |-> "none"]

ResInvalidate(c, lm, nxt, name, parts) ==
    LET found == LmGet(lm, name, genKey(name, parts))
    IN  IF ~found.ok
        THEN [cache |-> c, lookup |-> lm, next |-> nxt, hooks |-> <<>>, ret |-> "none"]
        ELSE Underlying(lm, nxt, Invalidate(c, found.origKey))

ResClear(c, lm, nxt) == Underlying(lm, nxt, Clear(c))

(***************************************************************************)
(* The result cache used one call at a time.  The load function of a Load  *)
(* returns a value that has the key asked for, or an error.                *)
(***************************************************************************)
\* What the calls on the result cache leave alone.
notRes == <<oTTL, oCap, oStop, oHooks, lkPc, mapVars, thrVars>>

ResInit ==
    /\ oCache = <<>>
    /\ oTTL = 1
    /\ oCap \in {1, MaxCap}
    /\ oNow = 0
    /\ oStop = FALSE
    /\ oLast = Call("Init", NoKey, Zero, "none")
    /\ oHooks = <<>>
    /\ lookup = {}
    /\ lkHooks = <<>>
    /\ lkPc = <<>>
    /\ next = 0
    /\ MapIdle
    /\ ThrIdle

\* A call that went through the result cache's operator r; of a Has and of
\* an Invalidate the operation and what it returned are kept.
ResDone(op, key, arg, r) ==
    /\ r.next <= MaxNext
    /\ oCache' = r.cache
    /\ lookup' = r.lookup
    /\ next' = r.next
    /\ lkHooks' = r.hooks
    /\ oLast' = Call(op, key, arg, r.ret)
    /\ UNCHANGED <<oNow, notRes>>

\* The clock advances until an entry stored at time 0 has expired.
ResTick ==
    /\ oNow <= oTTL
    /\ oNow' = oNow + 1
    /\ oLast' = Call("Tick", NoKey, Zero, "none")
    /\ lkHooks' = <<>>
    /\ UNCHANGED <<oCache, lookup, next, notRes>>

ResSweep == ResDone("Sweep", NoKey, Zero, Underlying(lookup, next, Sweep(oCache, oNow)))

\* The load function that is not to be called.
NotCalled == [value |-> NilValue, err |-> "not called"]

\* What the load function of a Load of the key returns: a value that has the
\* key, or an error; when the key is cached it is not called.
Loads(lm, name, parts) ==
    IF LmHas(lm, name, genKey(name, parts))
    THEN {NotCalled}
    ELSE {[value |-> v, err |-> "nil"] :
             v \in {tt \in testEntries :
                       genKey(name, Fields(name, tt)) = genKey(name, parts)}}
         \cup {[value |-> NilValue, err |-> e] : e \in {"noRows", "canceled"}}

\* The key parts the calls by lookup are made with: those of the values that
\* are cached under the lookup.
KeyParts(lk) == {Fields(lk.Name, tt) : tt \in {e \in testEntries : Derivable(lk, e)}}

DoLoad(name, parts, load) ==
    ResDone("Load", name, genKey(name, parts),
            Load(oCache, lookup, next, name, load, parts, oNow, oTTL, oCap))

DoStore(value, persist) ==
    ResDone("Store", NoKey, value,
            Store(oCache, lookup, next, value, persist, oNow, oTTL, oCap))

DoResHas(name, parts) ==
    ResDone("Has", NoKey, Zero, ResHas(oCache, lookup, next, name, parts))

DoResInvalidate(name, parts) ==
    ResDone("Invalidate", NoKey, Zero, ResInvalidate(oCache, lookup, next, name, parts))

DoResClear == ResDone("Clear", NoKey, Zero, ResClear(oCache, lookup, next))

ResNext ==
    \/ ResTick
    \/ ResSweep
    \/ DoResClear
    \/ \E value \in testEntries, persist \in {"nil", "failed"} : DoStore(value, persist)
    \/ \E i \in 1..Len(testLookups) : \E parts \in KeyParts(testLookups[i]) :
          \/ \E load \in Loads(lookup, testLookups[i].Name, parts) :
                DoLoad(testLookups[i].Name, parts, load)
          \/ DoResHas(testLookups[i].Name, parts)
          \/ DoResInvalidate(testLookups[i].Name, parts)

SpecRes == ResInit /\ [][ResNext]_vars


(***************************************************************************)
(* C20.  Result cache round trip: after Store(v, persist) with persist     *)
(* succeeding, for every registered lookup whose key is derivable from v,  *)
(* Load(lookup, loader, keyParts(v)) returns a copy equal to v and a nil   *)
(* error without calling the loader, for as long as the entry has not been *)
(* invalidated, evicted or overwritten: right after the Store for every    *)
(* such lookup, and later for every key that the entry, still cached, has  *)
(* not lost to a later insertion under the same key.                       *)
(***************************************************************************)
\* Load by the lookup and the key parts of v returns a copy of v, without
\* calling the load function.
LoadsBack(name, v) ==
    LET r == Load(oCache, lookup, next, name, NotCalled, Fields(name, v),
                  oNow, oTTL, oCap).ret
    IN  /\ r.err = "nil"
        /\ ~r.loaded
        /\ r.value = copy(v)

C20_StoreLoadRoundTrip ==
    /\ (oLast.op = "Store" /\ oLast.ret = "nil") =>
          \A i \in 1..Len(testLookups) :
              Derivable(testLookups[i], oLast.arg) =>
                  LoadsBack(testLookups[i].Name, oLast.arg)
    /\ \A j \in 1..Len(oCache) :
          oCache[j].Value.Error = "nil" =>
              \A k \in 1..Len(oCache[j].Value.Keys) :
                  /\ oCache[j].Value.Keys[k].key
                        = genKey(oCache[j].Value.Keys[k].name,
                                 Fields(oCache[j].Value.Keys[k].name, oCache[j].Value.Value))
                  /\ LoadsBack(oCache[j].Value.Keys[k].name, oCache[j].Value.Value)

\* A Load has hit a value that Store cached and that has since lost one of
\* its keys to a later insertion, with the other entry still cached.
C20_Witness ==
    /\ oLast.op = "Load"
    /\ ~oLast.ret.loaded
    /\ oLast.ret.err = "nil"
    /\ Len(oCache) = 2
    /\ oCache[1].Value.Value = oLast.ret.value
    /\ Len(oCache[1].Value.Keys) < Len(generate(oCache[1].Value.Value))


(***************************************************************************)
(* C21.  In the result cache, Invalidate(lookup, keyParts) resolved        *)
(* through any one key of a cached value removes the entry under every     *)
(* lookup (Has is false afterwards for each of the entry's keys), removes  *)
(* the primary entry, and calls the user's invalidate hook with the        *)
(* entry's value: in every state, for every cached value and every key it  *)
(* records, that is what Invalidate by the key does.                       *)
(***************************************************************************)
\* item is removed by Invalidate through its key k.
InvalidatesAll(item, k) ==
    LET v == item.Value.Value
        r == ResInvalidate(oCache, lookup, next, k.name, Fields(k.name, v))
    IN  /\ ~LRUHas(r.cache, item.Key)
        /\ Len(r.cache) = Len(oCache) - 1
        /\ \A i \in 1..Len(item.Value.Keys) :
              /\ ~ResHas(r.cache, r.lookup, r.next, item.Value.Keys[i].name,
                         Fields(item.Value.Keys[i].name, v)).ret
              /\ ~LmHas(r.lookup, item.Value.Keys[i].name, item.Value.Keys[i].key)
        /\ r.hooks = <<[hook |-> "invalid", Value |-> v]>>

C21_InvalidateByAnyAlias ==
    \A j \in 1..Len(oCache) :
        oCache[j].Value.Error = "nil" =>
            \A k \in 1..Len(oCache[j].Value.Keys) :
                InvalidatesAll(oCache[j], oCache[j].Value.Keys[k])

\* An Invalidate has removed a value cached under three keys, called the
\* user's hook with it, and left another entry in the cache.
C21_Witness ==
    /\ oLast.op = "Invalidate"
    /\ Len(lkHooks) = 1
    /\ lkHooks[1].hook = "invalid"
    /\ Len(generate(lkHooks[1].Value)) = 3
    /\ \A i \in 1..Len(generate(lkHooks[1].Value)) :
          ~LmHas(lookup, generate(lkHooks[1].Value)[i].name, generate(lkHooks[1].Value)[i].key)
    /\ Len(oCache) = 1


(***************************************************************************)
(* C22.  Negative caching: if Load(lookup, loader, key) misses and the     *)
(* loader returns an error that the ignore function does not match, then   *)
(* until the entry is invalidated, evicted or overwritten every later Load *)
(* with the same lookup and key returns that error without calling its     *)
(* loader: the Load leaves the error cached under the key, and in every    *)
(* state a Load by the key of a cached error returns the error.            *)
(***************************************************************************)
\* The cached entry that holds the key of the lookup, if any.
HoldersOf(name, key) ==
    {j \in 1..Len(oCache) :
        \E k \in 1..Len(oCache[j].Value.Keys) :
            oCache[j].Value.Keys[k] = cacheKey(name, key)}

\* Load by the lookup and the key parts returns the cached error err,
\* without calling the load function.
LoadsError(name, parts, err) ==
    Load(oCache, lookup, next, name, NotCalled, parts, oNow, oTTL, oCap).ret
        = Loaded(NilValue, err, FALSE)

C22_NegativeCaching ==
    /\ (oLast.op = "Load" /\ oLast.ret.loaded /\ oLast.ret.err = "noRows") =>
          /\ LmHas(lookup, oLast.key, oLast.arg)
          /\ \E j \in HoldersOf(oLast.key, oLast.arg) : oCache[j].Value.Error = "noRows"
    /\ \A j \in 1..Len(oCache) :
          oCache[j].Value.Error # "nil" =>
              \A k \in 1..Len(oCache[j].Value.Keys) :
                  \A i \in 1..Len(testLookups) :
                      testLookups[i].Name = oCache[j].Value.Keys[k].name =>
                          \A parts \in KeyParts(testLookups[i]) :
                              genKey(testLookups[i].Name, parts) = oCache[j].Value.Keys[k].key =>
                                  LoadsError(testLookups[i].Name, parts, oCache[j].Value.Error)

\* A Load has returned an error from the cache, with a second entry cached.
C22_Witness ==
    /\ oLast.op = "Load"
    /\ ~oLast.ret.loaded
    /\ oLast.ret.err = "noRows"
    /\ Len(oCache) = 2


(***************************************************************************)
(* C23.  When a Load misses and the loader fails with an error that the    *)
(* ignore function matches (by default context.Canceled and                *)
(* context.DeadlineExceeded), the error is returned to the caller and the  *)
(* cache, the lookup index and the primary key counter are left unchanged, *)
(* so that the next Load for the key calls its loader again.               *)
(***************************************************************************)
C23_IgnoredErrorNotCached ==
    [][(oLast'.op = "Load" /\ oLast'.ret.loaded /\ oLast'.ret.err = "canceled") =>
          /\ oLast'.ret.value = NilValue
          /\ oCache' = oCache
          /\ lookup' = lookup
          /\ next' = next
          /\ lkHooks' = <<>>
          /\ ~LmHas(lookup', oLast'.key, oLast'.arg)]_vars

\* A Load of a key that is not cached has returned the loader's
\* context.Canceled, with another key cached.
C23_Witness ==
    /\ oLast.op = "Load"
    /\ oLast.ret.loaded
    /\ oLast.ret.err = "canceled"
    /\ Len(oCache) = 1
    /\ ~LmHas(lookup, oLast.key, oLast.arg)


(***************************************************************************)
(* C24.  A cached error result is reachable through exactly one key, the   *)
(* (lookup, key) the caller used in the failing Load: at no time does any  *)
(* other lookup's index hold a mapping to its primary key.                 *)
(***************************************************************************)
\* The links of the index that point to the primary key.
LinksTo(pkey) == {l \in lookup : l[3] = pkey}

C24_ErrorHasOneAlias ==
    /\ \A j \in 1..Len(oCache) :
          oCache[j].Value.Error # "nil" =>
              /\ Len(oCache[j].Value.Keys) = 1
              /\ LinksTo(oCache[j].Key)
                    = {<<oCache[j].Value.Keys[1].name, oCache[j].Value.Keys[1].key,
                         oCache[j].Key>>}
    /\ (oLast.op = "Load" /\ oLast.ret.loaded /\ oLast.ret.err = "noRows") =>
          /\ oCache[1].Value.Error = "noRows"
          /\ oCache[1].Value.Keys = <<cacheKey(oLast.key, oLast.arg)>>

\* A failing Load has cached its error beside a value cached under three
\* keys.
C24_Witness ==
    /\ oLast.op = "Load"
    /\ oLast.ret.loaded
    /\ oLast.ret.err = "noRows"
    /\ Len(oCache) = 2
    /\ oCache[2].Value.Error = "nil"
    /\ Len(oCache[2].Value.Keys) = 3
    /\ Cardinality(LinksTo(oCache[1].Key)) = 1


(***************************************************************************)
(* C25.  When an error entry of the result cache is invalidated, cleared   *)
(* or evicted, the user's invalidate and evict hooks are not called for    *)
(* it, and its key is removed from the lookup index all the same; the      *)
(* user's hooks are called only for entries that hold a value.             *)
(***************************************************************************)
\* The entries of the cache that the step removes.
RemovedBy(c, d) == {j \in 1..Len(c) : ~LRUHas(d, c[j].Key)}

C25_NoUserHookForErrors ==
    [][/\ \A i \in 1..Len(lkHooks') : lkHooks'[i].Value # NilValue
       /\ \A j \in RemovedBy(oCache, oCache') :
             oCache[j].Value.Error # "nil" =>
                 /\ {l \in lookup' : l[3] = oCache[j].Key} = {}
                 /\ oLast'.op \in {"Invalidate", "Clear", "Sweep"} =>
                       ~LmHas(lookup', oCache[j].Value.Keys[1].name,
                              oCache[j].Value.Keys[1].key)
       /\ oLast'.op \in {"Invalidate", "Clear", "Sweep"} =>
             Len(lkHooks') = Cardinality({j \in RemovedBy(oCache, oCache') :
                                             oCache[j].Value.Error = "nil"})]_vars

\* A Clear after two insertions has emptied the cache and the index and has
\* called the user's invalidate hook once.
C25_Witness ==
    /\ oLast.op = "Clear"
    /\ next = 2
    /\ oCache = <<>>
    /\ lookup = {}
    /\ Len(lkHooks) = 1
    /\ lkHooks[1].hook = "invalid"


(***************************************************************************)
(* C26.  Overwrite consistency: when store() inserts a new entry one of    *)
(* whose keys (lookup, a) already maps to a primary key P', afterwards     *)
(* (lookup, a) maps to the new primary key, the old entry P' no longer     *)
(* records that key (so that a later eviction of P' does not delete the    *)
(* key the new entry owns now), and if P' has lost all its keys, P' is no  *)
(* longer in the cache.                                                    *)
(***************************************************************************)
\* The keys of an entry that are not keys of the new entry.
KeysLeft(keys, new) ==
    LET notNew(k) == \A i \in 1..Len(new) : new[i] # k
    IN  SelectSeq(keys, notNew)

C26_OverwriteConsistency ==
    [][next' = next + 1 =>
          /\ oCache'[1].Key = next
          /\ \A i \in 1..Len(oCache'[1].Value.Keys) :
                LmGet(lookup', oCache'[1].Value.Keys[i].name,
                      oCache'[1].Value.Keys[i].key) = [origKey |-> next, ok |-> TRUE]
          /\ \A j \in 1..Len(oCache) :
                LET left == KeysLeft(oCache[j].Value.Keys, oCache'[1].Value.Keys)
                IN  /\ left = <<>> => ~LRUHas(oCache', oCache[j].Key)
                    /\ LRUHas(oCache', oCache[j].Key) =>
                          oCache'[LRUIndex(oCache', oCache[j].Key)].Value.Keys = left
          /\ \A j \in 1..Len(oCache') :
                \A i \in 1..Len(oCache'[j].Value.Keys) :
                    LmGet(lookup', oCache'[j].Value.Keys[i].name,
                          oCache'[j].Value.Keys[i].key).origKey = oCache'[j].Key]_vars

\* A Store has taken over a key of a cached value, which is still cached
\* under the keys it has left.
C26_Witness ==
    /\ oLast.op = "Store"
    /\ oLast.ret = "nil"
    /\ Len(oCache) = 2
    /\ oCache[2].Value.Error = "nil"
    /\ Len(oCache[2].Value.Keys) < Len(generate(oCache[2].Value.Value))
    /\ Len(oCache[2].Value.Keys) > 0


(***************************************************************************)
(* C27.  Store(value, persist) caches the value and calls the user's       *)
(* invalidate hook, exactly once and with value, if and only if persist    *)
(* succeeds; when persist returns an error, Store returns that error and   *)
(* the cache, the lookup index, the primary key counter and the hook calls *)
(* are unchanged.                                                          *)
(***************************************************************************)
\* The positions of the calls of the user's invalidate hook in the hook
\* calls of the step.
InvalidAt(hooks) == {i \in 1..Len(hooks) : hooks[i].hook = "invalid"}

C27_StoreIffPersist ==
    [][oLast'.op = "Store" =>
          IF oLast'.ret = "nil"
          THEN /\ next' = next + 1
               /\ oCache'[1].Key = next
               /\ oCache'[1].Value.Error = "nil"
               /\ oCache'[1].Value.Value = copy(oLast'.arg)
               /\ InvalidAt(lkHooks') = {Len(lkHooks')}
               /\ lkHooks'[Len(lkHooks')].Value = oLast'.arg
          ELSE /\ oLast'.ret = "failed"
               /\ oCache' = oCache
               /\ lookup' = lookup
               /\ next' = next
               /\ lkHooks' = <<>>]_vars

\* A Store into the full cache has succeeded: the oldest entry was evicted,
\* then the invalidate hook was called with the stored value.
C27_Witness ==
    /\ oLast.op = "Store"
    /\ oLast.ret = "nil"
    /\ Len(lkHooks) = 2
    /\ lkHooks[1].hook = "evict"
    /\ lkHooks[2] = [hook |-> "invalid", Value |-> oLast.arg]
    /\ oCache[1].Value.Value = copy(oLast.arg)


(***************************************************************************)
(* The result cache through the wrap-around of its primary key counter.    *)
(* Values are stored one call at a time until the counter has gone round.  *)
(* A panic of store unwinds through the deferred Unlock of Store, so the   *)
(* cache stays usable by a program that recovers from the panic.           *)
(***************************************************************************)
WrapInit ==
    /\ oCache = <<>>
    /\ oTTL = 1
    /\ oCap = MaxCap
    /\ oNow = 0
    /\ oStop = FALSE
    /\ oLast = Call("Init", NoKey, Zero, "none")
    /\ oHooks = <<>>
    /\ lookup = {}
    /\ lkHooks = <<>>
    /\ lkPc = <<>>
    /\ next = 0
    /\ MapIdle
    /\ ThrIdle

WrapDone(op, arg, r) ==
    /\ oCache' = r.cache
    /\ lookup' = r.lookup
    /\ next' = r.next
    /\ lkHooks' = r.hooks
    /\ oLast' = Call(op, NoKey, arg, r.ret)
    /\ UNCHANGED <<oNow, notRes>>

WrapStore(value) ==
    WrapDone("Store", value, Store(oCache, lookup, next, value, "nil", oNow, oTTL, oCap))

WrapClear == WrapDone("Clear", Zero, ResClear(oCache, lookup, next))

WrapNext ==
    \/ \E value \in testEntries : WrapStore(value)
    \/ WrapClear

SpecWrap == WrapInit /\ [][WrapNext]_vars

(***************************************************************************)
(* C28.  Every insertion into the result cache mints a primary key         *)
(* strictly greater than every primary key minted before it, so greater    *)
(* than the key of every entry cached, and no entry is stored under a key  *)
(* from beyond the wrap-around of the counter: the insertion at which the  *)
(* counter wraps around panics.                                            *)
(***************************************************************************)
C28_PrimaryKeysIncrease ==
    [][/\ (oLast'.op = "Store" /\ oLast'.ret = "nil") =>
             /\ oCache'[1].Key >= 0
             /\ \A j \in 1..Len(oCache) : oCache'[1].Key > oCache[j].Key
       /\ (oLast'.op = "Store" /\ next' < next) => oLast'.ret = "panic"]_vars


(***************************************************************************)
(* The capacity-bounded cache, used one call at a time: the behaviours of  *)
(* the expiry-ordered cache used on its own together with those of the     *)
(* result cache built on it.  The counter of primary keys tells the two    *)
(* apart: it stays 0 while the cache is used on its own, and is above 0    *)
(* once the result cache holds, or has held, an entry.  On its own the     *)
(* cache is used through the calls that insert, Add and Set, with Get,     *)
(* which reorders the entries, and Invalidate, which makes room.           *)
(***************************************************************************)
\* result.New initializes the cache it is built on by Init(0, cap, 0).
CappedInit == ResInit

CappedOrd ==
    \/ \E key \in Keys : OrdGet(key)
    \/ \E key \in Keys, value \in Values : OrdAdd(key, value)
    \/ \E key \in Keys, value \in Values : OrdSet(key, value)
    \/ \E key \in Keys : OrdInvalidate(key)

CappedNext ==
    \/ next = 0 /\ CappedOrd
    \/ (oCache = <<>> \/ next > 0) /\ ResNext

SpecCapped == CappedInit /\ [][CappedNext]_vars


(***************************************************************************)
(* C29.  With capacity cap > 0 the cache never holds more than cap entries *)
(* after any sequence of Add, Set, Store or Load.  When an insertion would *)
(* exceed cap, the oldest entry, the one at the back of the map, is        *)
(* dropped and the evict hook is called exactly once, for it; in the       *)
(* result cache this also removes all the keys of that entry from the      *)
(* lookup index, and the user's evict hook sees the entry's value.         *)
(***************************************************************************)
\* The positions of the calls of the user's evict hook.
EvictAt(hooks) == {i \in 1..Len(hooks) : hooks[i].hook = "evict"}

C29_CapacityBound ==
    [][/\ Len(oCache') <= oCap'
       /\ (oLast'.op \in {"Add", "Set"} /\ ~LRUHas(oCache, oLast'.key)) =>
             IF Len(oCache) >= oCap
             THEN /\ RemovedBy(oCache, oCache') = {Len(oCache)}
                  /\ oHooks' = <<HookCall("evict", oCache[Len(oCache)], FALSE)>>
             ELSE /\ RemovedBy(oCache, oCache') = {}
                  /\ oHooks' = <<>>
       /\ (oLast'.op \in {"Store", "Load"} /\ next' = next + 1) =>
             LET d == storeDrop(oCache, lookup, oCache'[1].Value.Keys).cache
             IN  IF Len(d) >= oCap
                 THEN /\ Len(oCache') = oCap
                      /\ ~LRUHas(oCache', d[Len(d)].Key)
                      /\ \A i \in 1..(Len(d) - 1) : LRUHas(oCache', d[i].Key)
                      /\ {l \in lookup' : l[3] = d[Len(d)].Key} = {}
                      /\ \A i \in 1..Len(d[Len(d)].Value.Keys) :
                            ~LmHas(lookup', d[Len(d)].Value.Keys[i].name,
                                   d[Len(d)].Value.Keys[i].key)
                      /\ IF d[Len(d)].Value.Error = "nil"
                         THEN /\ EvictAt(lkHooks') = {1}
                              /\ lkHooks'[1].Value = d[Len(d)].Value.Value
                         ELSE EvictAt(lkHooks') = {}
                 ELSE /\ Len(oCache') = Len(d) + 1
                      /\ EvictAt(lkHooks') = {}]_vars

\* A Load that called its load function has cached the value in a full
\* cache: the entry that was cached is gone and the user's evict hook was
\* called once.
C29_Witness ==
    /\ oLast.op = "Load"
    /\ oLast.ret.loaded
    /\ oLast.ret.err = "nil"
    /\ Len(oCache) = oCap
    /\ oCache[1].Key = 1
    /\ Len(lkHooks) = 1
    /\ lkHooks[1].hook = "evict"


(***************************************************************************)
(* C30.  At every point where no operation is inside the critical section  *)
(* of the cache, every entry the cache holds has an expiry later than the  *)
(* current time.  The calls of SpecOrd are made one at a time, so in each  *)
(* of its states no operation is inside the critical section.              *)
(***************************************************************************)
C30_EntriesUnexpired == \A i \in 1..Len(oCache) : oCache[i].Expiry > oNow


(***************************************************************************)
(* The key encoder on its own.  The key parts of two calls by the lookup   *)
(* Field5.Field6, two strings each, are drawn from the strings of at most  *)
(* MaxLen characters; genkey is applied to both.  oLast holds the calls:   *)
(* the lookup, the two lists of key parts, and the two keys returned.      *)
(***************************************************************************)
MaxLen == 2

Chars == {"a", "b"}

Strings == UNION {[1..n -> Chars] : n \in 0..MaxLen}

KeyInit ==
    /\ oCache = <<>>
    /\ oTTL = 1
    /\ oCap = 1
    /\ oNow = 0
    /\ oStop = FALSE
    /\ oHooks = <<>>
    /\ \E p1 \in Strings, p2 \in Strings, q1 \in Strings, q2 \in Strings :
          oLast = Call("parts", "Field5.Field6", <<<<p1, p2>>, <<q1, q2>>>>, <<>>)
    /\ MapIdle
    /\ ThrIdle
    /\ LkIdle
    /\ ResIdle

DoGenkey ==
    /\ oLast.op = "parts"
    /\ oLast' = Call("genkey", oLast.key, oLast.arg,
                     <<genKey(oLast.key, oLast.arg[1]), genKey(oLast.key, oLast.arg[2])>>)
    /\ UNCHANGED <<oCache, oTTL, oCap, oNow, oStop, oHooks, notOrd>>

SpecKey == KeyInit /\ [][DoGenkey]_vars

fancyLookups == <<"Field1", "Field5.Field6">>

\* entry[Value]
entry(keys, value) == [keys |-> keys, value |-> value]

\* structKeys.generate: the key string of every lookup, zero or not.
structKeysGenerate(tt) ==
    [i \in 1..Len(fancyLookups) |->
        genKey(fancyLookups[i], Fields(fancyLookups[i], tt))]

\* A hook for which the user's hook is called and no key is deleted.
FancyHookOnly(c, hook, key) ==
    [cache |-> c, calls |-> <<[hook |-> hook, Value |-> c[key].value.value]>>]

\* The hook set by SetEvictionCallback and by SetInvalidateCallback, called
\* with key and the entry under it: the entry's other keys are deleted from
\* the map, then the user's hook is called.
FancyHook(c, hook, key) ==
    [cache |-> MapDelete(c, Range(c[key].value.keys) \ {key}),
     calls |-> <<[hook |-> hook, Value |-> c[key].value.value]>>]

\* What a call on the cache leaves: the map, what it returns, and the calls
\* of the user's hooks.
Fancy(c, ret, calls) == [cache |-> c, ret |-> ret, hooks |-> calls, mu |-> FALSE]

\* SetUnsafe of each key in turn; a key found in the map goes through the
\* invalidate hook first.
RECURSIVE FancySetAll(_, _, _, _, _, _)
FancySetAll(c, keys, val, now, ttl, calls) ==
    IF keys = <<>>
    THEN [cache |-> c, calls |-> calls]
    ELSE IF HasUnsafe(c, Head(keys))
    THEN LET h == FancyHook(c, "invalid", Head(keys))
         IN  FancySetAll(SetUnsafe(h.cache, Head(keys), val, now, ttl, FALSE).cache,
                         Tail(keys), val, now, ttl, calls \o h.calls)
    ELSE FancySetAll(SetUnsafe(c, Head(keys), val, now, ttl, FALSE).cache,
                     Tail(keys), val, now, ttl, calls)

\* A Put that stores under the keys that are free.
FancyPutFree(c, value, now, ttl) ==
    LET val == entry(structKeysGenerate(value), value)
        free(key) == ~HasUnsafe(c, key)
        s == FancySetAll(c, SelectSeq(val.keys, free), val, now, ttl, <<>>)
    IN  Fancy(s.cache, \A i \in 1..Len(val.keys) : free(val.keys[i]), s.calls)

FancyPut(c, value, now, ttl) ==
    LET val == entry(structKeysGenerate(value), value)
        s == FancySetAll(c, val.keys, val, now, ttl, <<>>)
    IN  IF \E i \in 1..Len(val.keys) : HasUnsafe(c, val.keys[i])
        THEN Fancy(c, FALSE, <<>>)
        ELSE Fancy(s.cache, TRUE, s.calls)

FancyGet(c, name, parts, now, ttl) ==
    LET g == GetUnsafe(c, genKey(name, parts), now, ttl)
    IN  IF ~g.ret.ok
        THEN Fancy(g.cache, [value |-> NilValue, ok |-> FALSE], <<>>)
        ELSE Fancy(g.cache, [value |-> g.ret.value.value, ok |-> TRUE], <<>>)

FancyHas(c, name, parts) == Fancy(c, HasUnsafe(c, genKey(name, parts)), <<>>)

\* InvalidateUnsafe: the hook is called, then the key is deleted.
FancyInvalidate(c, name, parts) ==
    LET key == genKey(name, parts)
        h == FancyHook(c, "invalid", key)
    IN  IF ~HasUnsafe(c, key)
        THEN Fancy(c, FALSE, <<>>)
        ELSE Fancy(MapDelete(h.cache, {key}), TRUE, h.calls)

\* A range over the map in the order seq that, for each key it reaches and
\* that is to go, calls the hook and deletes the key.  A key deleted before
\* the range reaches it is not produced.  A sweep lets go the keys whose
\* entry has expired at now, a Clear all.
RECURSIVE FancyRange(_, _, _, _, _)
FancyRange(c, hook, seq, now, calls) ==
    IF seq = <<>>
    THEN Fancy(c, "none", calls)
    ELSE IF Head(seq) \notin DOMAIN c
              \/ (hook = "evict" /\ ~After(now, c[Head(seq)].expiry))
    THEN FancyRange(c, hook, Tail(seq), now, calls)
    ELSE LET h == FancyHook(c, hook, Head(seq))
         IN  FancyRange(MapDelete(h.cache, {Head(seq)}), hook, Tail(seq), now,
                        calls \o h.calls)

FancyClear(c, order) == FancyRange(c, "invalid", order, 0, <<>>)

FancySweep(c, now, order) == FancyRange(c, "evict", order, now, <<>>)


(***************************************************************************)
(* fancycache.Cache used one call at a time, with the values of            *)
(* testEntries.  The sweep is the map cache's, run when the scheduler      *)
(* ticks; the range of a sweep or of a Clear visits the keys in any order. *)
(***************************************************************************)
\* What the calls on fancycache.Cache leave alone.
notFancy == <<mMu, mHooks, ordVars, thrVars, lookup, lkPc, resVars>>

FancyInit ==
    /\ mCache = <<>>
    /\ mTTL = DefaultTTL
    /\ mNow = 0
    /\ mMu = FALSE
    /\ mLast = MapCall("New", NoKey, Zero, "none", FALSE)
    /\ mHooks = <<>>
    /\ OrdIdle
    /\ ThrIdle
    /\ LkIdle
    /\ ResIdle

FancyDone(op, key, arg, r) ==
    /\ mCache' = r.cache
    /\ lkHooks' = r.hooks
    /\ mLast' = MapCall(op, key, arg, r.ret, FALSE)
    /\ UNCHANGED <<mTTL, mNow, notFancy>>

FancyTick ==
    /\ mNow < MaxTime
    /\ mNow' = mNow + 1
    /\ mLast' = MapCall("Tick", NoKey, Zero, "none", FALSE)
    /\ lkHooks' = <<>>
    /\ UNCHANGED <<mCache, mTTL, notFancy>>

DoFancySetTTL(ttl, update) ==
    /\ mCache' = MapSetTTL(mCache, mTTL, ttl, update).cache
    /\ mTTL' = ttl
    /\ mLast' = MapCall("SetTTL", NoKey, Zero, "none", FALSE)
    /\ lkHooks' = <<>>
    /\ UNCHANGED <<mNow, notFancy>>

\* The key parts the calls by a lookup are made with.
FancyParts(name) == {Fields(name, tt) : tt \in testEntries}

DoFancyPut(value) ==
    FancyDone("Put", NoKey, value, FancyPut(mCache, value, mNow, mTTL))

DoFancyGet(name, parts) ==
    FancyDone("Get", genKey(name, parts), Zero, FancyGet(mCache, name, parts, mNow, mTTL))

DoFancyHas(name, parts) ==
    FancyDone("Has", genKey(name, parts), Zero, FancyHas(mCache, name, parts))

DoFancyInvalidate(name, parts) ==
    FancyDone("Invalidate", genKey(name, parts), Zero,
              FancyInvalidate(mCache, name, parts))

DoFancyClear(order) == FancyDone("Clear", NoKey, Zero, FancyClear(mCache, order))

DoFancySweep(order) ==
    FancyDone("sweep", NoKey, Zero, FancySweep(mCache, mNow, order))

FancyNext ==
    \/ FancyTick
    \/ \E ttl \in TTLs, update \in BOOLEAN : DoFancySetTTL(ttl, update)
    \/ \E value \in testEntries : DoFancyPut(value)
    \/ \E i \in 1..Len(fancyLookups) : \E parts \in FancyParts(fancyLookups[i]) :
          \/ DoFancyGet(fancyLookups[i], parts)
          \/ DoFancyHas(fancyLookups[i], parts)
          \/ DoFancyInvalidate(fancyLookups[i], parts)
    \/ \E order \in Orders(mCache) : DoFancyClear(order)
    \/ \E order \in Orders(mCache) : DoFancySweep(order)

SpecFancy == FancyInit /\ [][FancyNext]_vars


(***************************************************************************)
(* C31.  fancycache Put(value) is all or nothing: if any key derived from  *)
(* value for any lookup is already in the cache, Put returns false and the *)
(* cache is unchanged, no key added and no hook called; otherwise it       *)
(* returns true and Get returns the value under every lookup.  So Put of   *)
(* the same value a second time returns false.                             *)
(***************************************************************************)
\* Get by the lookup and the key parts of the value returns the value.
FancyGetsBack(c, name, value, now, ttl) ==
    FancyGet(c, name, Fields(name, value), now, ttl).ret = [value |-> value, ok |-> TRUE]

C31_PutAllOrNothing ==
    [][mLast'.op = "Put" =>
          IF \E i \in 1..Len(fancyLookups) :
                 HasUnsafe(mCache, structKeysGenerate(mLast'.arg)[i])
          THEN /\ mLast'.ret = FALSE
               /\ mCache' = mCache
               /\ lkHooks' = <<>>
          ELSE /\ mLast'.ret = TRUE
               /\ lkHooks' = <<>>
               /\ \A i \in 1..Len(fancyLookups) :
                     FancyGetsBack(mCache', fancyLookups[i], mLast'.arg, mNow', mTTL')
               /\ FancyPut(mCache', mLast'.arg, mNow', mTTL').ret = FALSE]_vars

\* A Put of a value that has one key in the cache and one key free has
\* returned false.
C31_Witness ==
    /\ mLast.op = "Put"
    /\ mLast.ret = FALSE
    /\ \E i \in 1..Len(fancyLookups) : HasUnsafe(mCache, structKeysGenerate(mLast.arg)[i])
    /\ \E i \in 1..Len(fancyLookups) : ~HasUnsafe(mCache, structKeysGenerate(mLast.arg)[i])


(***************************************************************************)
(* C32.  In fancycache, removing a stored value through any one of its     *)
(* keys, by Invalidate by one lookup, by Clear, or by a sweep that finds   *)
(* one of its keys expired, removes the value from every one of its keys,  *)
(* so that Has is false for all of them, and calls the user's hook for the *)
(* removal exactly once for that value, not once per key.                  *)
(***************************************************************************)
\* The values that c holds under a key that d does not hold.
FancyRemoved(c, d) == {c[key].value : key \in DOMAIN c \ DOMAIN d}

C32_RemovedUnderEveryKey ==
    [][mLast'.op \in {"Invalidate", "Clear", "sweep"} =>
          /\ \A val \in FancyRemoved(mCache, mCache') :
                /\ \A i \in 1..Len(fancyLookups) :
                      ~FancyHas(mCache', fancyLookups[i],
                                Fields(fancyLookups[i], val.value)).ret
                /\ Cardinality({j \in 1..Len(lkHooks') : lkHooks'[j].Value = val.value}) = 1
          /\ Len(lkHooks') = Cardinality(FancyRemoved(mCache, mCache'))
          /\ \A j \in 1..Len(lkHooks') :
                lkHooks'[j].hook = IF mLast'.op = "sweep" THEN "evict" ELSE "invalid"]_vars

\* A sweep has removed the one value cached and called the evict hook once.
C32_Witness ==
    /\ mLast.op = "sweep"
    /\ mCache = <<>>
    /\ Len(lkHooks) = 1
    /\ lkHooks[1].hook = "evict"


(***************************************************************************)
(* C39.  In fancycache a successful Get of a stored value through any one  *)
(* of its keys at time t guarantees that no sweep running before t + TTL   *)
(* evicts the value: the sliding TTL protects the whole value, not only    *)
(* the key the Get used.  In every state, a Get by any lookup that finds   *)
(* the value, followed by a sweep less than TTL later, does not call the   *)
(* evict hook with the value.                                              *)
(***************************************************************************)
\* Whether a sweep of c at now, in some order, evicts the value.
FancyEvicts(c, now, value) ==
    \E order \in Orders(c) :
        \E j \in 1..Len(FancySweep(c, now, order).hooks) :
            FancySweep(c, now, order).hooks[j].Value = value

C39_GetProtectsValue ==
    \A i \in 1..Len(fancyLookups) : \A parts \in FancyParts(fancyLookups[i]) :
        LET g == FancyGet(mCache, fancyLookups[i], parts, mNow, mTTL)
        IN  g.ret.ok =>
                \A d \in 0..(mTTL - 1) : ~FancyEvicts(g.cache, mNow + d, g.ret.value)


(***************************************************************************)
(* C35.  Sweep(now) of the expiry-ordered cache never removes an entry     *)
(* whose Expiry is not before now, after any sequence of Add, Set, Get,    *)
(* CAS, Swap, Has and SetTTL, with update true or false and the TTL raised *)
(* or lowered, made with a clock that only advances.                       *)
(***************************************************************************)
C35_SweepRemovesOnlyExpired ==
    [][oLast'.op = "Sweep" =>
          \A j \in RemovedBy(oCache, oCache') : After(oNow, oCache[j].Expiry)]_vars


(***************************************************************************)
(* C36.  In the expiry-ordered cache, whenever the lock is not held, the   *)
(* order of the backing map agrees with the order of expiry: an entry      *)
(* nearer the oldest end never has a later Expiry than an entry nearer the *)
(* newest end, after any sequence of Add, Set, Get, CAS, Swap and SetTTL   *)
(* made with a clock that only advances.  The newest end is the front.     *)
(***************************************************************************)
C36_OrderAgreesWithExpiry ==
    \A i \in 1..Len(oCache) : \A j \in i..Len(oCache) :
        oCache[j].Expiry <= oCache[i].Expiry



(***************************************************************************)
(* The result cache used by two threads.  Every step is one section of a   *)
(* call that runs with the cache's mutex held, so that the mutex is free   *)
(* in every state: Load looks its key up in one section and, after a miss, *)
(* stores what its load function returned in another; Invalidate looks the *)
(* primary key up in one section and invalidates by it in another (the     *)
(* underlying cache's Invalidate locks again); Store, Has and Clear are    *)
(* one section each, and so is a sweep of the eviction routine.            *)
(***************************************************************************)
\* The primary key counter stops at MaxLoads.
MaxLoads == 2

\* Where a thread is: the section it is about to run, the lookup and key
\* parts of its Load, and the primary key its Invalidate found.
RPc(at, name, parts, pkey) == [at |-> at, name |-> name, parts |-> parts, pkey |-> pkey]

RIdle == RPc("idle", NoKey, <<>>, 0)

\* What the threads using the result cache leave alone.
notRc == <<oTTL, oCap, oStop, oHooks, mapVars, thrVars>>

RcInit ==
    /\ oCache = <<>>
    /\ oTTL = 1
    /\ oCap \in {1, MaxCap}
    /\ oNow = 0
    /\ oStop = FALSE
    /\ oLast = Call("Init", NoKey, Zero, "none")
    /\ oHooks = <<>>
    /\ lookup = {}
    /\ lkHooks = <<>>
    /\ lkPc = [t \in Threads |-> RIdle]
    /\ next = 0
    /\ MapIdle
    /\ ThrIdle

\* A section of thread t's call op is over: r is what it made of the cache,
\* pc where the thread is now, arg what is kept of the call.  Which thread
\* it was, what the call returned and the hooks it called are not kept.
RcDone(t, op, arg, r, pc) ==
    /\ oCache' = r.cache
    /\ lookup' = r.lookup
    /\ next' = r.next
    /\ lkHooks' = <<>>
    /\ oLast' = Call(op, NoKey, arg, "none")
    /\ lkPc' = [lkPc EXCEPT ![t] = pc]
    /\ UNCHANGED <<oNow, notRc>>

\* A section that leaves cache and index as they are.
RcSame(ret) ==
    [cache |-> oCache, lookup |-> lookup, next |-> next, hooks |-> <<>>, ret |-> ret]

\* The key is in the index and the entry of its primary key is not cached:
\* Cache.Get returns nil, and reading entry.Value panics.
Dangling(c, lm, name, ckey) ==
    /\ LmGet(lm, name, ckey).ok
    /\ ~LRUHas(c, LmGet(lm, name, ckey).origKey)

RcPanic(t, op) == RcDone(t, op, Zero, RcSame("panic"), [RIdle EXCEPT !.at = "panicked"])

\* The first section of Load: the key is looked up, and on a hit the result
\* is fetched through Cache.Get; on a miss the load function is called next,
\* with the mutex free.
RcLoadLookup(t, name, parts) ==
    LET ckey == genKey(name, parts)
        found == LmGet(lookup, name, ckey)
        g == LRUGet(oCache, found.origKey)
    IN  /\ lkPc[t].at = "idle"
        /\ IF Dangling(oCache, lookup, name, ckey)
           THEN RcPanic(t, "Load")
           ELSE IF found.ok
           THEN RcDone(t, "Load", Zero,
                       [cache |-> g, lookup |-> lookup, next |-> next, hooks |-> <<>>,
                        ret |-> IF g[1].Value.Error # "nil"
                                THEN Loaded(NilValue, g[1].Value.Error, FALSE)
                                ELSE Loaded(copy(g[1].Value.Value), "nil", FALSE)],
                       RIdle)
           ELSE RcDone(t, "Lookup", Zero, RcSame("miss"), RPc("loading", name, parts, 0))

\* What Load does after a miss with what the load function returned: an
\* error that is ignored is returned, any other result is stored.
LoadMiss(c, lm, nxt, name, ckey, load, now, ttl, cap) ==
    IF load.err # "nil" /\ ignore(load.err)
    THEN [cache |-> c, lookup |-> lm, next |-> nxt, hooks |-> <<>>, panic |-> FALSE,
          ret |-> Loaded(NilValue, load.err, TRUE)]
    ELSE LET res == IF load.err # "nil"
                    THEN result(<<cacheKey(name, ckey)>>, NilValue, load.err)
                    ELSE result(generate(load.value), load.value, "nil")
             s == store(c, lm, nxt, res, now, ttl, cap)
         IN  [cache |-> s.cache, lookup |-> s.lookup, next |-> s.next,
              hooks |-> s.hooks, panic |-> s.panic,
              ret |-> IF s.panic
                      THEN Loaded(NilValue, "panic", TRUE)
                      ELSE IF load.err # "nil"
                      THEN Loaded(NilValue, load.err, TRUE)
                      ELSE Loaded(copy(load.value), "nil", TRUE)]

\* What the load function of a Load of the key returns.
RcLoads(name, parts) ==
    {[value |-> v, err |-> "nil"] :
        v \in {tt \in testEntries :
                  genKey(name, Fields(name, tt)) = genKey(name, parts)}}
    \cup {[value |-> NilValue, err |-> e] : e \in {"noRows", "canceled"}}

\* The keys of generate(value) that are in the index.
Held(lm, value) ==
    {i \in 1..Len(generate(value)) :
        LmHas(lm, generate(value)[i].name, generate(value)[i].key)}

\* What is kept of a Load that missed: its lookup and key parts, the error
\* and the keys of what was loaded, the length of the cache before its
\* store, whether the cache had room, whether the index held none of the
\* keys, and whether an entry with the same keys was cached by then.
Missed(name, parts, load, c, lm, cap) ==
    [name |-> name, parts |-> parts, err |-> load.err,
     keys |-> IF load.err = "nil" THEN generate(load.value) ELSE <<>>,
     size |-> Len(c), room |-> Len(c) < cap,
     fresh |-> load.err = "nil" /\ Held(lm, load.value) = {},
     twin |-> /\ load.err = "nil"
              /\ \E j \in 1..Len(c) : c[j].Value.Keys = generate(load.value)]

\* The second section of Load: the load function has returned load; the
\* primary key counter stops at max.
RcLoadStoreUpTo(max, t) ==
    /\ lkPc[t].at = "loading"
    /\ next < max
    /\ \E load \in RcLoads(lkPc[t].name, lkPc[t].parts) :
          LET pc == lkPc[t]
              r == LoadMiss(oCache, lookup, next, pc.name, genKey(pc.name, pc.parts),
                            load, oNow, oTTL, oCap)
          IN  RcDone(t, "LoadMiss", Missed(pc.name, pc.parts, load, oCache, lookup, oCap), r,
                     IF r.panic THEN [RIdle EXCEPT !.at = "panicked"] ELSE RIdle)

RcLoadStore(t) == RcLoadStoreUpTo(MaxLoads, t)

RcStore(t, value, persist) ==
    /\ lkPc[t].at = "idle"
    /\ next < MaxLoads
    /\ RcDone(t, "Store", Zero,
              Store(oCache, lookup, next, value, persist, oNow, oTTL, oCap), RIdle)

RcHas(t, name, parts) ==
    /\ lkPc[t].at = "idle"
    /\ IF Dangling(oCache, lookup, name, genKey(name, parts))
       THEN RcPanic(t, "Has")
       ELSE RcDone(t, "Has", Zero, ResHas(oCache, lookup, next, name, parts), RIdle)

\* The first section of Invalidate: the primary key is looked up.
RcInvalidateLookup(t, name, parts) ==
    LET found == LmGet(lookup, name, genKey(name, parts))
    IN  /\ lkPc[t].at = "idle"
        /\ RcDone(t, "Invalidate", Zero, RcSame("none"),
                  IF found.ok THEN RPc("invalidating", NoKey, <<>>, found.origKey)
                              ELSE RIdle)

\* The second section of Invalidate: c.cache.Invalidate(pkey).
RcInvalidatePkey(t) ==
    /\ lkPc[t].at = "invalidating"
    /\ RcDone(t, "Invalidate", Zero,
              Underlying(lookup, next, Invalidate(oCache, lkPc[t].pkey)), RIdle)

RcClear(t) ==
    /\ lkPc[t].at = "idle"
    /\ RcDone(t, "Clear", Zero, ResClear(oCache, lookup, next), RIdle)

\* A sweep of the eviction routine.
RcSweep ==
    /\ oCache' = Sweep(oCache, oNow).cache
    /\ lookup' = RunResultHooks(lookup, Sweep(oCache, oNow).hooks).lookup
    /\ lkHooks' = <<>>
    /\ oLast' = Call("Sweep", NoKey, Zero, "none")
    /\ UNCHANGED <<oNow, next, lkPc, notRc>>

RcTick ==
    /\ oNow <= oTTL
    /\ oNow' = oNow + 1
    /\ oLast' = Call("Tick", NoKey, Zero, "none")
    /\ lkHooks' = <<>>
    /\ UNCHANGED <<oCache, lookup, next, lkPc, notRc>>

RcNext ==
    \/ RcTick
    \/ RcSweep
    \/ \E t \in Threads :
          \/ RcClear(t)
          \/ RcInvalidatePkey(t)
          \/ \E value \in testEntries, persist \in {"nil", "failed"} :
                RcStore(t, value, persist)
          \/ RcLoadStore(t)
          \/ \E i \in 1..Len(testLookups) : \E parts \in KeyParts(testLookups[i]) :
                \/ RcLoadLookup(t, testLookups[i].Name, parts)
                \/ RcHas(t, testLookups[i].Name, parts)
                \/ RcInvalidateLookup(t, testLookups[i].Name, parts)

SpecResConc == RcInit /\ [][RcNext]_vars


(***************************************************************************)
(* C37.  In the result cache, whenever the mutex is free, every key of an  *)
(* index maps to a primary key that is cached, and every key recorded on a *)
(* cached entry maps back to the entry's primary key, under any            *)
(* interleaving of Load, Store, Has, Invalidate, Clear, sweep and eviction *)
(* at capacity; so Load and Has never find a key whose entry is missing.   *)
(***************************************************************************)
C37_IndexAgreesWithStore ==
    /\ \A l \in lookup : LRUHas(oCache, l[3])
    /\ \A j \in 1..Len(oCache) :
          \A i \in 1..Len(oCache[j].Value.Keys) :
              LmGet(lookup, oCache[j].Value.Keys[i].name, oCache[j].Value.Keys[i].key)
                 = [origKey |-> oCache[j].Key, ok |-> TRUE]
    /\ \A t \in Threads : lkPc[t].at # "panicked"

\* A thread is between the two sections of its Invalidate and the entry it
\* found is gone, the other thread is between the two sections of a Load,
\* and an entry stored since is cached under its keys.
C37_Witness ==
    /\ \E t \in Threads :
          /\ lkPc[t].at = "invalidating"
          /\ ~LRUHas(oCache, lkPc[t].pkey)
    /\ \E t \in Threads : lkPc[t].at = "loading"
    /\ Len(oCache) = 1
    /\ lookup # {}



(***************************************************************************)
(* Two threads that Load from the result cache and nothing else: the cache *)
(* is filled by Loads that missed, up to MaxRace insertions.               *)
(***************************************************************************)
MaxRace == 3

RaceLoadStore(t) == RcLoadStoreUpTo(MaxRace, t)

RaceNext ==
    \E t \in Threads :
        \/ RaceLoadStore(t)
        \/ \E i \in 1..Len(testLookups) : \E parts \in KeyParts(testLookups[i]) :
              RcLoadLookup(t, testLookups[i].Name, parts)

SpecLoadRace == RcInit /\ [][RaceNext]_vars

\* Two Loads of the same lookup and key parts have both missed, their load
\* functions have returned values with the same keys, and their stores are
\* this step and the step before it: the two calls ran concurrently, the
\* one that stores now having looked the key up before the other stored.
LoadsRaced ==
    /\ oLast.op = "LoadMiss"
    /\ oLast'.op = "LoadMiss"
    /\ oLast.arg.err = "nil"
    /\ oLast'.arg.err = "nil"
    /\ oLast.arg.name = oLast'.arg.name
    /\ oLast.arg.parts = oLast'.arg.parts
    /\ oLast.arg.keys = oLast'.arg.keys

\* The entries of c that record one of the keys.
LiveUnder(c, keys) ==
    {j \in 1..Len(c) :
        \E i \in 1..Len(keys) : \E k \in 1..Len(c[j].Value.Keys) :
            c[j].Value.Keys[k] = keys[i]}

\* One entry of c records the keys, and in lm each of them maps to it.
OneEntry(c, lm, keys) ==
    /\ Cardinality(LiveUnder(c, keys)) = 1
    /\ \A j \in LiveUnder(c, keys) :
          \A i \in 1..Len(keys) :
              LmGet(lm, keys[i].name, keys[i].key) = [origKey |-> c[j].Key, ok |-> TRUE]

(***************************************************************************)
(* C38.  In the result cache, when two threads concurrently Load the same  *)
(* lookup and key on a miss and both load functions succeed with values    *)
(* that derive the same keys, then after both calls exactly one entry is   *)
(* cached for those keys and every one of the keys resolves to it; the     *)
(* cache holds at most one entry more than before the two stores, and      *)
(* exactly one more when it had room and held none of the keys.            *)
(***************************************************************************)
C38_ConcurrentLoadsOneEntry ==
    [][LoadsRaced =>
          /\ OneEntry(oCache', lookup', oLast'.arg.keys)
          /\ Len(oCache') <= oLast.arg.size + 1
          /\ (oLast.arg.room /\ oLast.arg.fresh) => Len(oCache') = oLast.arg.size + 1]_vars

\* As stated: the cache has grown by exactly one entry in every case.
C38_SizeGrowsByOne ==
    [][LoadsRaced =>
          /\ OneEntry(oCache', lookup', oLast'.arg.keys)
          /\ Len(oCache') = oLast.arg.size + 1]_vars

\* A Load that missed has stored its value while an entry with the same
\* keys, stored by the other thread's Load since the miss, was cached next
\* to another entry.
C38_Witness ==
    /\ oLast.op = "LoadMiss"
    /\ oLast.arg.twin
    /\ oLast.arg.size = 2
    /\ Len(oCache) = 2
    /\ OneEntry(oCache, lookup, oLast.arg.keys)



(***************************************************************************)
(* The result cache and the objects its values point to.  A value is a     *)
(* pointer to a testType struct: ptr is the address, and the fields are    *)
(* written wherever the pointer is held, so that a write through a pointer *)
(* changes the fields at every holder of the same address.  The caller's   *)
(* value, the load function's value and the struct the copy function       *)
(* returns (tt2 := new(testType)) are each a new object.                   *)
(***************************************************************************)
\* No more than MaxObjects objects are made.
MaxObjects == 8

Addr(n) == ToString(n)

\* What the caller holds: the value its last call left it with, and the
\* number of objects made so far.
Caller(held, objects) == [held |-> held, objects |-> objects]

\* The struct that copy returned is at address a.
Placed(value, a) == IF value.ptr = "copy" THEN [value EXCEPT !.ptr = a] ELSE value

\* The entry set by the call is at the newest end.
PlacedIn(c, a) ==
    IF c = <<>> THEN c ELSE [c EXCEPT ![1].Value.Value = Placed(c[1].Value.Value, a)]

\* The caller writes to a field of the struct at address a.
Written(value, a) == IF value.ptr = a THEN [value EXCEPT !.Field13 = 7] ELSE value

WrittenIn(c, a) == [j \in 1..Len(c) |-> [c[j] EXCEPT !.Value.Value = Written(c[j].Value.Value, a)]]

CopyInit ==
    /\ oCache = <<>>
    /\ oTTL = 1
    /\ oCap \in {1, MaxCap}
    /\ oNow = 0
    /\ oStop = FALSE
    /\ oLast = Call("Init", NoKey, Zero, "none")
    /\ oHooks = <<>>
    /\ lookup = {}
    /\ lkHooks = <<>>
    /\ lkPc = Caller(NilValue, 0)
    /\ next = 0
    /\ MapIdle
    /\ ThrIdle

\* A call that went through the result cache's operator r and made two
\* objects at most: the caller's or the load function's, and the copy.
CopyDone(op, key, r, ret, held) ==
    /\ r.next <= MaxNext
    /\ lkPc.objects + 2 <= MaxObjects
    /\ oCache' = PlacedIn(r.cache, Addr(lkPc.objects + 1))
    /\ lookup' = r.lookup
    /\ next' = r.next
    /\ lkHooks' = r.hooks
    /\ oLast' = Call(op, key, Zero, ret)
    /\ lkPc' = Caller(held, lkPc.objects + 2)
    /\ UNCHANGED <<oNow, notRc>>

\* Load: the load function returns a new object; the caller holds what Load
\* returned.
CopyLoad(name, parts, load) ==
    LET made == [load EXCEPT !.value = IF load.err = "nil"
                                       THEN [load.value EXCEPT !.ptr = Addr(lkPc.objects)]
                                       ELSE load.value]
        r == Load(oCache, lookup, next, name, made, parts, oNow, oTTL, oCap)
        ret == [r.ret EXCEPT !.value = Placed(r.ret.value, Addr(lkPc.objects + 1))]
    IN  CopyDone("Load", name, r, ret, ret.value)

\* Store: the caller passes a new object and holds it afterwards.
CopyStore(value, persist) ==
    LET made == [value EXCEPT !.ptr = Addr(lkPc.objects)]
    IN  CopyDone("Store", NoKey,
                 Store(oCache, lookup, next, made, persist, oNow, oTTL, oCap),
                 persist, made)

\* The caller writes to the struct it holds, which the call before left it
\* with; that call is kept.
CopyWrite ==
    /\ lkPc.held.ptr # "nil"
    /\ lkPc.held.Field13 # 7
    /\ oCache' = WrittenIn(oCache, lkPc.held.ptr)
    /\ lkPc' = [lkPc EXCEPT !.held = Written(lkPc.held, lkPc.held.ptr)]
    /\ oLast' = Call("Write", oLast.op, Zero, oLast.ret)
    /\ lkHooks' = <<>>
    /\ UNCHANGED <<oNow, lookup, next, notRc>>

CopyNext ==
    \/ CopyWrite
    \/ \E value \in testEntries, persist \in {"nil", "failed"} : CopyStore(value, persist)
    \/ \E i \in 1..Len(testLookups) : \E parts \in KeyParts(testLookups[i]) :
          \E load \in Loads(lookup, testLookups[i].Name, parts) :
              CopyLoad(testLookups[i].Name, parts, load)

SpecCopy == CopyInit /\ [][CopyNext]_vars

\* The addresses of the values held in the entries of c.
CachedAt(c) == {c[j].Value.Value.ptr : j \in 1..Len(c)}

(***************************************************************************)
(* C34.  Every value that Load of the result cache returns, on a hit as    *)
(* well as after a miss whose load function succeeded, is the output of    *)
(* the copy function, an object made in the call with the fields of the    *)
(* cached value, and is not the object a cache entry holds; so a write     *)
(* through a returned value changes no cached value, and a later Load      *)
(* returns what it would have returned without the write.                  *)
(***************************************************************************)
C34_LoadReturnsCopy ==
    [][/\ (oLast'.op = "Load" /\ oLast'.ret.err = "nil") =>
             /\ oLast'.ret.value.ptr = Addr(lkPc.objects + 1)
             /\ oLast'.ret.value.ptr \notin CachedAt(oCache')
             /\ \E j \in 1..Len(oCache') :
                   oLast'.ret.value = [oCache'[j].Value.Value EXCEPT
                                          !.ptr = Addr(lkPc.objects + 1)]
       /\ oLast'.op = "Write" => oCache' = oCache]_vars

\* The caller has written to a value that a Load hit returned, and the
\* cached value the Load copied still has the field as it was.
C34_Witness ==
    /\ oLast.op = "Write"
    /\ oLast.key = "Load"
    /\ ~oLast.ret.loaded
    /\ lkPc.held.Field13 = 7
    /\ \E j \in 1..Len(oCache) :
          /\ oCache[j].Value.Value.Field1 = lkPc.held.Field1
          /\ oCache[j].Value.Value.Field5 = lkPc.held.Field5
          /\ oCache[j].Value.Value.Field13 # 7
          /\ oCache[j].Value.Value.ptr # lkPc.held.ptr

=============================================================================
